---------------------------- MODULE Spec2Model ----------------------------
(***************************************************************************)
(* A model of the Gramble parsing engine (parser/stateMachine.py and       *)
(* parser/src/tapes.py): the multi-tape state machine, its determinizing   *)
(* query dQuery, the output tries, and the breadth-first driver generate.  *)
(*                                                                         *)
(* A process calls generate on a sequence of grammars (the plan).  The     *)
(* dictionaries strToIndex and indexToStr are the default arguments of     *)
(* StringTape.__init__; Python evaluates them once, so every StringTape    *)
(* that TapeCollection.tokenize creates holds the same two dictionaries,   *)
(* for the whole life of the process.                                      *)
(***************************************************************************)
EXTENDS Integers, Sequences, FiniteSets, TLC

VARIABLES
    plan,        \* the calls of generate the process makes, in order
    callNo,      \* how many of them have been started
    strToIndex,  \* StringTape.__init__'s default strToIndex dictionary
    indexToStr,  \* StringTape.__init__'s default indexToStr dictionary
    pc,          \* "idle": no generate is running; "loop": at the while test
    allTapes,    \* generate's allTapes: the names in TapeCollection._tapes
    symbolStack, \* generate's symbolStack
    maxChars,    \* generate's maxChars
    stateQueue,  \* generate's stateQueue
    chars,       \* generate's chars
    steps,       \* how many times the body of the while loop was entered
    yielded,     \* the records the running generate has yielded so far
    history,     \* the finished invocations, in order
    callArgs,    \* the arguments of the last call the client made directly
    callResult   \* what that call returned, or the exception it raised

vars == <<plan, callNo, strToIndex, indexToStr, pc, allTapes, symbolStack,
          maxChars, stateQueue, chars, steps, yielded, history,
          callArgs, callResult>>

---------------------------------------------------------------------------
(* Program constants *)

MAX_NUM_CHARS == 32
DefaultParserMaxRecursion == 3
DefaultMaxRecursion == 4
DefaultMaxChars == 1000

(* Bounds of the model *)

MaxLen == 2          \* the longest literal text that is enumerated
MaxCharsBound == 3   \* the largest explicit maxChars that is enumerated
MaxChildren == 3     \* the most children that Seq() and Uni() are given
MaxAdds == 4         \* the longest chain of CounterStack.add calls
MaxRecursionBound == 3   \* the largest explicit max of a CounterStack
MaxTokenizes == 2    \* the most tokenize calls that a client makes
MaxOutputNodes == 2  \* the most nodes of a MultiTapeOutput that a client builds
MaxResultsBound == 2 \* the largest max_results that an AlternationParser is given

TapeNames == {"T", "U"}
Chars == {"a", "b"}

NoError == "none"

---------------------------------------------------------------------------
(* Token: a bit set of width MAX_NUM_CHARS, as the set of its 1 bits *)

ANY_CHAR == 0 .. (MAX_NUM_CHARS - 1)

and_(bits, other) == bits \cap other

andNot(bits, other) == bits \ other

isEmpty(bits) == bits = {}

---------------------------------------------------------------------------
(* Tapes *)

None == [kind |-> "None"]

StringTape(name) == [kind |-> "StringTape", tapeName |-> name]

\* the one TapeCollection of the running generate; its _tapes is allTapes
TapeCollection == [kind |-> "TapeCollection"]

NumTapes(tape) ==
    IF tape.kind = "TapeCollection" THEN Cardinality(allTapes) ELSE 1

TapeName(tape) ==
    IF tape.kind = "TapeCollection"
    THEN (IF allTapes = {} THEN "__NO_TAPE__" ELSE "__ANY_TAPE__")
    ELSE tape.tapeName

MatchTape(tape, name) ==
    IF tape.kind = "TapeCollection"
    THEN (IF name \in allTapes THEN StringTape(name) ELSE None)
    ELSE (IF name = tape.tapeName THEN tape ELSE None)

\* StringTape.match
Match(str1, str2) == and_(str1, str2)

\* StringTape.any
AnyToken == ANY_CHAR

\* a registerToken that gives every character the index 0
registerTokenAtZero(s2i, i2s, token) ==
    [index |-> 0,
     strToIndex |-> (token :> 0) @@ s2i,
     indexToStr |-> (0 :> token) @@ i2s]

\* StringTape.registerToken, on the dictionaries s2i and i2s
registerToken(s2i, i2s, token) ==
    LET index == Cardinality(DOMAIN s2i)
    IN  [index |-> index,
         strToIndex |-> (token :> index) @@ s2i,
         indexToStr |-> (index :> token) @@ i2s]

\* StringTape.toBits: result[index] = 1 raises IndexError beyond the width
toBits(s2i, char) ==
    IF char \notin DOMAIN s2i THEN [err |-> NoError, bits |-> {}]
    ELSE IF s2i[char] >= MAX_NUM_CHARS THEN [err |-> "IndexError", bits |-> {}]
    ELSE [err |-> NoError, bits |-> {s2i[char]}]

RECURSIVE TokenizeFrom(_, _, _, _, _)
TokenizeFrom(s2i, i2s, string, k, results) ==
    IF k > Len(string)
    THEN [err |-> NoError, tokens |-> results,
          strToIndex |-> s2i, indexToStr |-> i2s]
    ELSE LET c == string[k]
             reg == IF c \in DOMAIN s2i
                    THEN [strToIndex |-> s2i, indexToStr |-> i2s]
                    ELSE registerToken(s2i, i2s, c)
             b == toBits(reg.strToIndex, c)
         IN  IF b.err # NoError
             THEN [err |-> b.err, tokens |-> results,
                   strToIndex |-> reg.strToIndex,
                   indexToStr |-> reg.indexToStr]
             ELSE TokenizeFrom(reg.strToIndex, reg.indexToStr, string, k + 1,
                               Append(results, b.bits))

\* StringTape.tokenize, on the dictionaries s2i and i2s
tokenize(s2i, i2s, string) == TokenizeFrom(s2i, i2s, string, 1, <<>>)

\* StringTape.fromBits: the loop reads the 1 bits in ascending order and
\* breaks at the first one that indexToStr does not hold
fromBitsIn(i2s, bits) ==
    LET missing == {i \in bits : i \notin DOMAIN i2s}
        read == {i \in bits : i < MAX_NUM_CHARS /\ \A j \in missing : i < j}
        nth(k) == CHOOSE i \in read : Cardinality({j \in read : j < i}) = k - 1
    IN  [k \in 1 .. Cardinality(read) |-> i2s[nth(k)]]

\* fromBits on a tape of the running process: every StringTape holds the
\* same dictionary
fromBits(bits) == fromBitsIn(indexToStr, bits)

---------------------------------------------------------------------------
(* CounterStack *)

CounterStack(max) == [max |-> max, stack |-> <<>>]

\* CounterStack.get
get(self, key) ==
    IF key \in DOMAIN self.stack THEN self.stack[key] ELSE 0

\* an add that counts in the dictionary of the stack it is called on
addInPlace(self, key) ==
    LET counted == [max |-> self.max,
                    stack |-> (key :> get(self, key) + 1) @@ self.stack]
    IN  [result |-> counted, self |-> counted]

\* CounterStack.add: what the call returns, and the stack it was called on
\* as the call leaves it
add(self, key) ==
    LET result == CounterStack(self.max)
        zeroed == (key :> 0) @@ result.stack
        updated == self.stack @@ zeroed
        counted == [updated EXCEPT ![key] = @ + 1]
    IN  [result |-> [max |-> result.max, stack |-> counted], self |-> self]

\* an exceedsMax that needs one more entry
exceedsMaxStrict(self, key) == get(self, key) > self.max

\* CounterStack.exceedsMax
exceedsMax(self, key) == get(self, key) >= self.max

---------------------------------------------------------------------------
(* States *)

LiteralState(tapeName, text, tokens, tapes) ==
    [type |-> "Literal", tapeName |-> tapeName, text |-> text,
     tokens |-> tokens, tapes |-> tapes]

AnyCharState(tapeName) == [type |-> "AnyChar", tapeName |-> tapeName]

TrivialState == [type |-> "Trivial"]

ConcatState(child1, child2) ==
    [type |-> "Concat", child1 |-> child1, child2 |-> child2]

UnionState(child1, child2) ==
    [type |-> "Union", child1 |-> child1, child2 |-> child2]

\* JoinState is imported by the tests and is not in the source; it is
\* modelled from section 4.7 of the specification
JoinState(child1, child2) ==
    [type |-> "Join", child1 |-> child1, child2 |-> child2]

\* the constructor Join(child1, child2) that the tests call
Join(child1, child2) == JoinState(child1, child2)

Lit(tier, text) == LiteralState(tier, text, <<>>, "None")

StateError(msg) == [type |-> "StateError", msg |-> msg]

\* Seq() of the source; the name Seq is taken by the Sequences module
RECURSIVE SeqOf(_)

\* a Seq that folds its children from the left
SeqOfLeftFold(children) ==
    IF Len(children) = 0
    THEN StateError("Sequences must have at least 1 child")
    ELSE IF Len(children) = 1 THEN children[1]
    ELSE ConcatState(SeqOf(SubSeq(children, 1, Len(children) - 1)),
                     children[Len(children)])

SeqOf(children) ==
    IF Len(children) = 0
    THEN StateError("Sequences must have at least 1 child")
    ELSE IF Len(children) = 1 THEN children[1]
    ELSE ConcatState(children[1], SeqOf(Tail(children)))

RECURSIVE Uni(_)
Uni(children) ==
    IF Len(children) = 0
    THEN StateError("Unions must have at least 1 child")
    ELSE IF Len(children) = 1 THEN children[1]
    ELSE UnionState(children[1], Uni(Tail(children)))

RECURSIVE accepting(_, _)
accepting(s, stack) ==
    CASE s.type = "Literal" -> Len(s.tokens) = 0
      [] s.type = "AnyChar" -> FALSE
      [] s.type = "Trivial" -> TRUE
      [] s.type = "Concat" ->
            accepting(s.child1, stack) /\ accepting(s.child2, stack)
      [] s.type = "Union" ->
            accepting(s.child1, stack) \/ accepting(s.child2, stack)
      [] s.type = "Join" ->
            accepting(s.child1, stack) /\ accepting(s.child2, stack)

\* a successor that keeps the first token and drops the last one
LiteralSuccessorKeepsFirst(s) ==
    LET newTokens == SubSeq(s.tokens, 1, Len(s.tokens) - 1)
        lastText == fromBits(s.tokens[Len(s.tokens)])
        newText == SubSeq(s.text, 1, Len(s.text) - Len(lastText))
    IN  LiteralState(s.tapeName, newText, newTokens, s.tapes)

\* LiteralState._successor
LiteralSuccessor(s) ==
    LET newTokens == Tail(s.tokens)
        firstText == fromBits(s.tokens[1])
        newText == SubSeq(s.text, Len(firstText) + 1, Len(s.text))
    IN  LiteralState(s.tapeName, newText, newTokens, s.tapes)

firstToken(s, tape) ==
    IF s.type = "Literal" THEN s.tokens[1] ELSE AnyToken

successor(s) ==
    IF s.type = "Literal" THEN LiteralSuccessor(s) ELSE TrivialState

Transition(tape, bits, matched, next) ==
    [tape |-> tape, bits |-> bits, matched |-> matched, next |-> next]

Yield(trans) == [err |-> NoError, trans |-> trans]

Raise(err) == [err |-> err, trans |-> <<>>]

\* a query that tests accepting before it resolves the tape
TextNdQueryAcceptingFirst(s, tape, target, stack) ==
    LET matchedTape == MatchTape(tape, s.tapeName)
    IN  IF accepting(s, stack)
        THEN Yield(<<>>)
        ELSE IF matchedTape = None
        THEN Yield(<<Transition(tape, target, FALSE, s)>>)
        ELSE Yield(<<Transition(matchedTape,
                                Match(firstToken(s, matchedTape), target),
                                TRUE, successor(s))>>)

\* TextState.ndQuery
TextNdQuery(s, tape, target, stack) ==
    LET matchedTape == MatchTape(tape, s.tapeName)
    IN  IF matchedTape = None
        THEN Yield(<<Transition(tape, target, FALSE, s)>>)
        ELSE IF accepting(s, stack)
        THEN Yield(<<>>)
        ELSE Yield(<<Transition(matchedTape,
                                Match(firstToken(s, matchedTape), target),
                                TRUE, successor(s))>>)

\* TrivialState.ndQuery: the body is "pass", so the call returns None and not
\* a generator; dQuery's list(None) raises TypeError
TrivialNdQuery(s, tape, target, stack) == Raise("TypeError")

\* the inner loop of dQuery (lines 236-248)
RECURSIVE FoldResults(_, _, _, _, _, _, _)

\* an inner loop that keeps all the bits of the other transition
FoldResultsKeepsOverlap(results, k, tape, bits, matched, nxt, newResults) ==
    IF k > Len(results)
    THEN [newResults |-> newResults, bits |-> bits]
    ELSE LET o == results[k]
         IN  IF TapeName(tape) # TapeName(o.tape)
             THEN FoldResults(results, k + 1, tape, bits, matched, nxt,
                              Append(newResults, o))
             ELSE LET intersection == and_(bits, o.bits)
                      r1 == IF ~isEmpty(intersection)
                            THEN Append(newResults,
                                   Transition(tape, intersection,
                                              matched \/ o.matched,
                                              UnionState(nxt, o.next)))
                            ELSE newResults
                      r2 == Append(r1, Transition(o.tape, o.bits,
                                                  o.matched, o.next))
                  IN  FoldResults(results, k + 1, tape,
                                  andNot(bits, intersection), matched, nxt, r2)

FoldResults(results, k, tape, bits, matched, nxt, newResults) ==
    IF k > Len(results)
    THEN [newResults |-> newResults, bits |-> bits]
    ELSE LET o == results[k]
         IN  IF TapeName(tape) # TapeName(o.tape)
             THEN FoldResults(results, k + 1, tape, bits, matched, nxt,
                              Append(newResults, o))
             ELSE LET intersection == and_(bits, o.bits)
                      r1 == IF ~isEmpty(intersection)
                            THEN Append(newResults,
                                   Transition(tape, intersection,
                                              matched \/ o.matched,
                                              UnionState(nxt, o.next)))
                            ELSE newResults
                      otherBits == andNot(o.bits, intersection)
                      r2 == IF ~isEmpty(otherBits)
                            THEN Append(r1, Transition(o.tape, otherBits,
                                                       o.matched, o.next))
                            ELSE r1
                  IN  FoldResults(results, k + 1, tape,
                                  andNot(bits, intersection), matched, nxt, r2)

\* the outer loop of dQuery (lines 230-251)
RECURSIVE Determinize(_, _, _)

RECURSIVE DeterminizeKeepsEmpty(_, _, _)
\* an outer loop that keeps what is left of the new transition, empty or not
DeterminizeKeepsEmpty(nextStates, k, results) ==
    IF k > Len(nextStates) THEN results
    ELSE LET t == nextStates[k]
         IN  IF NumTapes(t.tape) = 0
             THEN DeterminizeKeepsEmpty(nextStates, k + 1, Append(results, t))
             ELSE LET f == FoldResults(results, 1, t.tape, t.bits, t.matched,
                                       t.next, <<>>)
                  IN  DeterminizeKeepsEmpty(nextStates, k + 1,
                        Append(f.newResults,
                               Transition(t.tape, f.bits, t.matched, t.next)))

\* a dQuery that returns the transitions of ndQuery as they are
DeterminizeKeepsAll(nextStates, k, results) ==
    results \o SubSeq(nextStates, k, Len(nextStates))

\* an outer loop that forgets what is left of the new transition
DeterminizeDropsRest(nextStates, k, results) ==
    IF k > Len(nextStates) THEN results
    ELSE LET t == nextStates[k]
         IN  IF NumTapes(t.tape) = 0
             THEN Determinize(nextStates, k + 1, Append(results, t))
             ELSE LET f == FoldResults(results, 1, t.tape, t.bits, t.matched,
                                       t.next, <<>>)
                  IN  Determinize(nextStates, k + 1,
                        IF ~isEmpty(f.bits) /\ Len(results) = 0
                        THEN Append(f.newResults,
                                    Transition(t.tape, f.bits, t.matched,
                                               t.next))
                        ELSE f.newResults)

Determinize(nextStates, k, results) ==
    IF k > Len(nextStates) THEN results
    ELSE LET t == nextStates[k]
         IN  IF NumTapes(t.tape) = 0
             THEN Determinize(nextStates, k + 1, Append(results, t))
             ELSE LET f == FoldResults(results, 1, t.tape, t.bits, t.matched,
                                       t.next, <<>>)
                  IN  Determinize(nextStates, k + 1,
                        IF ~isEmpty(f.bits)
                        THEN Append(f.newResults,
                                    Transition(t.tape, f.bits, t.matched,
                                               t.next))
                        ELSE f.newResults)

RECURSIVE ndQuery(_, _, _, _)
RECURSIVE dQuery(_, _, _, _)
RECURSIVE ConcatLoop(_, _, _, _, _, _, _, _)

\* the for loop of ConcatState.ndQuery (lines 499-507); c2 is
\* child2.dQuery(tape, target, symbolStack)
ConcatLoop(s, c1, c2, k, tape, target, stack, acc) ==
    IF k > Len(c1)
    THEN [err |-> NoError, trans |-> acc.trans,
          yieldedAlready |-> acc.yieldedAlready]
    ELSE LET t == c1[k]
         IN  IF t.matched
             THEN ConcatLoop(s, c1, c2, k + 1, tape, target, stack,
                    [trans |-> Append(acc.trans,
                                 Transition(t.tape, t.bits, t.matched,
                                            ConcatState(t.next, s.child2))),
                     yieldedAlready |-> acc.yieldedAlready])
             ELSE IF c2.err # NoError
             THEN [err |-> c2.err, trans |-> <<>>,
                   yieldedAlready |-> acc.yieldedAlready]
             ELSE ConcatLoop(s, c1, c2, k + 1, tape, target, stack,
                    [trans |-> acc.trans \o
                         [i \in 1 .. Len(c2.trans) |->
                            Transition(c2.trans[i].tape, c2.trans[i].bits,
                                       c2.trans[i].matched,
                                       ConcatState(s.child1,
                                                   c2.trans[i].next))],
                     yieldedAlready |-> acc.yieldedAlready
                                          \/ Len(c2.trans) > 0])

\* a concatenation that never hands over to child2 when child1 is accepting
ConcatNdQueryNoHandOver(s, tape, target, stack) ==
    LET c1 == dQuery(s.child1, tape, target, stack)
        c2 == dQuery(s.child2, tape, target, stack)
    IN  IF c1.err # NoError THEN Raise(c1.err)
        ELSE LET loop == ConcatLoop(s, c1.trans, c2, 1, tape, target, stack,
                                    [trans |-> <<>>, yieldedAlready |-> FALSE])
             IN  IF loop.err # NoError THEN Raise(loop.err)
                 ELSE Yield(loop.trans)

\* a concatenation that does not keep track of what it has yielded
ConcatNdQueryYieldsTwice(s, tape, target, stack) ==
    LET c1 == dQuery(s.child1, tape, target, stack)
        c2 == dQuery(s.child2, tape, target, stack)
    IN  IF c1.err # NoError THEN Raise(c1.err)
        ELSE LET loop == ConcatLoop(s, c1.trans, c2, 1, tape, target, stack,
                                    [trans |-> <<>>, yieldedAlready |-> FALSE])
             IN  IF loop.err # NoError THEN Raise(loop.err)
                 ELSE IF accepting(s.child1, stack)
                 THEN (IF c2.err # NoError THEN Raise(c2.err)
                       ELSE Yield(loop.trans \o c2.trans))
                 ELSE Yield(loop.trans)

\* a concatenation that hands over to child2 whatever child1 answered
ConcatNdQueryAlwaysHandsOver(s, tape, target, stack) ==
    LET c1 == dQuery(s.child1, tape, target, stack)
        c2 == dQuery(s.child2, tape, target, stack)
    IN  IF c1.err # NoError THEN Raise(c1.err)
        ELSE LET loop == ConcatLoop(s, c1.trans, c2, 1, tape, target, stack,
                                    [trans |-> <<>>, yieldedAlready |-> FALSE])
             IN  IF loop.err # NoError THEN Raise(loop.err)
                 ELSE IF c2.err # NoError THEN Raise(c2.err)
                 ELSE Yield(loop.trans \o c2.trans)

\* ConcatState.ndQuery
ConcatNdQuery(s, tape, target, stack) ==
    LET c1 == dQuery(s.child1, tape, target, stack)
        c2 == dQuery(s.child2, tape, target, stack)
    IN  IF c1.err # NoError THEN Raise(c1.err)
        ELSE LET loop == ConcatLoop(s, c1.trans, c2, 1, tape, target, stack,
                                    [trans |-> <<>>, yieldedAlready |-> FALSE])
             IN  IF loop.err # NoError THEN Raise(loop.err)
                 ELSE IF ~loop.yieldedAlready /\ accepting(s.child1, stack)
                 THEN (IF c2.err # NoError THEN Raise(c2.err)
                       ELSE Yield(loop.trans \o c2.trans))
                 ELSE Yield(loop.trans)

\* a union that forgets the transitions of child2
UnionNdQueryFirstChild(s, tape, target, stack) ==
    LET c1 == dQuery(s.child1, tape, target, stack)
        c2 == dQuery(s.child2, tape, target, stack)
    IN  IF c1.err # NoError THEN Raise(c1.err)
        ELSE IF c2.err # NoError THEN Raise(c2.err)
        ELSE Yield(c1.trans)

\* a union that lets child2 answer before child1
UnionNdQuerySecondFirst(s, tape, target, stack) ==
    LET c1 == dQuery(s.child1, tape, target, stack)
        c2 == dQuery(s.child2, tape, target, stack)
    IN  IF c1.err # NoError THEN Raise(c1.err)
        ELSE IF c2.err # NoError THEN Raise(c2.err)
        ELSE Yield(c2.trans \o c1.trans)

\* UnionState.ndQuery
UnionNdQuery(s, tape, target, stack) ==
    LET c1 == dQuery(s.child1, tape, target, stack)
        c2 == dQuery(s.child2, tape, target, stack)
    IN  IF c1.err # NoError THEN Raise(c1.err)
        ELSE IF c2.err # NoError THEN Raise(c2.err)
        ELSE Yield(c1.trans \o c2.trans)

\* a pair that takes the token of child1 and never intersects
JoinPairNoIntersection(s, t1, t2) ==
    IF t1.matched /\ t2.matched
    THEN <<Transition(t1.tape, t1.bits, TRUE, JoinState(t1.next, t2.next))>>
    ELSE IF t1.matched
    THEN <<Transition(t1.tape, t1.bits, TRUE, JoinState(t1.next, s.child2))>>
    ELSE IF t2.matched
    THEN <<Transition(t2.tape, t2.bits, TRUE, JoinState(s.child1, t2.next))>>
    ELSE <<Transition(t1.tape, t1.bits, FALSE, s)>>

\* what JoinState.ndQuery yields for one pair of transitions, t1 of child1
\* and t2 of child2 (section 4.7): the intersection when both match on the
\* same tape, the matching one when only one matches, a stay when neither
\* does; the section gives no transition to a pair that matches on two
\* different tapes
JoinPair(s, t1, t2) ==
    IF t1.matched /\ t2.matched
    THEN (IF TapeName(t1.tape) = TapeName(t2.tape)
             /\ ~isEmpty(and_(t1.bits, t2.bits))
          THEN <<Transition(t1.tape, and_(t1.bits, t2.bits), TRUE,
                            JoinState(t1.next, t2.next))>>
          ELSE <<>>)
    ELSE IF t1.matched
    THEN <<Transition(t1.tape, t1.bits, TRUE, JoinState(t1.next, s.child2))>>
    ELSE IF t2.matched
    THEN <<Transition(t2.tape, t2.bits, TRUE, JoinState(s.child1, t2.next))>>
    ELSE <<Transition(t1.tape, t1.bits, FALSE, s)>>

RECURSIVE JoinLoop(_, _, _, _)
\* the pairs of transitions, those of child1 in the outer loop
JoinLoop(s, c1, c2, k) ==
    IF k >= Len(c1) * Len(c2) THEN <<>>
    ELSE JoinPair(s, c1[(k \div Len(c2)) + 1], c2[(k % Len(c2)) + 1])
            \o JoinLoop(s, c1, c2, k + 1)

\* JoinState.ndQuery (section 4.7): both children are queried with the same
\* tape and target
JoinNdQuery(s, tape, target, stack) ==
    LET c1 == dQuery(s.child1, tape, target, stack)
        c2 == dQuery(s.child2, tape, target, stack)
    IN  IF c1.err # NoError THEN Raise(c1.err)
        ELSE IF c2.err # NoError THEN Raise(c2.err)
        ELSE Yield(JoinLoop(s, c1.trans, c2.trans, 0))

ndQuery(s, tape, target, stack) ==
    CASE s.type \in {"Literal", "AnyChar"} ->
            TextNdQuery(s, tape, target, stack)
      [] s.type = "Trivial" -> TrivialNdQuery(s, tape, target, stack)
      [] s.type = "Concat" -> ConcatNdQuery(s, tape, target, stack)
      [] s.type = "Union" -> UnionNdQuery(s, tape, target, stack)
      [] s.type = "Join" -> JoinNdQuery(s, tape, target, stack)

\* State.dQuery
dQuery(s, tape, target, stack) ==
    LET nextStates == ndQuery(s, tape, target, stack)
    IN  IF nextStates.err # NoError THEN Raise(nextStates.err)
        ELSE Yield(Determinize(nextStates.trans, 1, <<>>))

---------------------------------------------------------------------------
(* Outputs *)

\* a SingleTapeOutput chain is the sequence of its nodes, oldest first
SingleTapeOutput(tape, token, prev) ==
    Append(prev, [tape |-> tape, token |-> token])

\* "for s in prevStrings: for c in ...: yield s + c", where more is the
\* strings that follow s
Extend(prevStrings, more) ==
    [k \in 1 .. Len(prevStrings) * Len(more) |->
        prevStrings[((k - 1) \div Len(more)) + 1]
            \o more[((k - 1) % Len(more)) + 1]]

RECURSIVE GetStringsBetween(_, _, _)
\* the strings of the nodes lo .. hi of a chain.  getStrings recurses on prev,
\* one node at a time; here the chain is split in two halves, which yields
\* the same strings in the same order
GetStringsBetween(nodes, lo, hi) ==
    IF lo > hi THEN << <<>> >>
    ELSE IF lo = hi
    THEN LET cs == fromBits(nodes[lo].token)
         IN  [k \in 1 .. Len(cs) |-> <<cs[k]>>]
    ELSE LET mid == (lo + hi) \div 2
             left == GetStringsBetween(nodes, lo, mid)
             right == GetStringsBetween(nodes, mid + 1, hi)
         IN  IF Len(left) = 0 \/ Len(right) = 0 THEN <<>>
             ELSE Extend(left, right)

\* SingleTapeOutput.getStrings, called on the last node of the chain
getStrings(nodes) == GetStringsBetween(nodes, 1, Len(nodes))

\* a MultiTapeOutput is its singleTapeOutputs dictionary, as the sequence of
\* its items in insertion order
MultiTapeOutput == <<>>

HasTape(output, name) == \E k \in 1 .. Len(output) : output[k].tapeName = name

\* an add that does not copy the entries of the receiver
MultiTapeAddWithoutUpdate(output, tape, token) ==
    IF NumTapes(tape) = 0 THEN output
    ELSE <<[tapeName |-> TapeName(tape),
            nodes |-> SingleTapeOutput(tape, token, <<>>)]>>

\* MultiTapeOutput.add
MultiTapeAdd(output, tape, token) ==
    IF NumTapes(tape) = 0 THEN output
    ELSE IF HasTape(output, TapeName(tape))
    THEN [k \in 1 .. Len(output) |->
            IF output[k].tapeName = TapeName(tape)
            THEN [tapeName |-> output[k].tapeName,
                  nodes |-> SingleTapeOutput(tape, token, output[k].nodes)]
            ELSE output[k]]
    ELSE Append(output, [tapeName |-> TapeName(tape),
                         nodes |-> SingleTapeOutput(tape, token, <<>>)])

NoRecord == [n \in {} |-> <<>>]

\* "newResult = result.copy(); newResult[tapeName] = s"
WithField(result, name, s) ==
    [n \in DOMAIN result \cup {name} |-> IF n = name THEN s ELSE result[n]]

RECURSIVE Product(_, _, _, _, _)
\* "for s in tape.getStrings(): for result in results: ..."
Product(strings, results, name, i, j) ==
    IF i > Len(strings) THEN <<>>
    ELSE IF j > Len(results) THEN Product(strings, results, name, i + 1, 1)
    ELSE <<WithField(results[j], name, strings[i])>>
            \o Product(strings, results, name, i, j + 1)

RECURSIVE ToStringsFrom(_, _, _)
ToStringsFrom(output, k, results) ==
    IF k > Len(output) THEN results
    ELSE ToStringsFrom(output, k + 1,
            Product(getStrings(output[k].nodes), results,
                    output[k].tapeName, 1, 1))

\* a toStrings that starts from no record at all
toStringsFromNothing(output) == ToStringsFrom(output, 1, <<>>)

\* MultiTapeOutput.toStrings
toStrings(output) == ToStringsFrom(output, 1, <<NoRecord>>)

\* MultiTapeOutput.toStrings of an output that a client has built: the
\* nodes added with a TapeCollection are decoded by TapeCollection.fromBits,
\* which raises TapeError because the collection holds no tape of its own
\* name "__ANY_TAPE__" (lines 360-363)
MultiTapeToStrings(output) ==
    IF HasTape(output, "__ANY_TAPE__")
    THEN [err |-> "TapeError", records |-> <<>>]
    ELSE [err |-> NoError, records |-> toStrings(output)]

---------------------------------------------------------------------------
(* generate *)

RECURSIVE collectVocab(_, _, _, _)
\* LiteralState.collectVocab, BinaryState.collectVocab, State.collectVocab;
\* TapeCollection.tokenize adds the tape before it tokenizes
collectVocab(s, tapes, s2i, i2s) ==
    CASE s.type = "Literal" ->
            LET r == tokenize(s2i, i2s, s.text)
            IN  [err |-> r.err,
                 state |-> IF r.err = NoError
                           THEN LiteralState(s.tapeName, s.text, r.tokens,
                                             "TapeCollection")
                           ELSE s,
                 tapes |-> tapes \cup {s.tapeName},
                 strToIndex |-> r.strToIndex, indexToStr |-> r.indexToStr]
      [] s.type \in {"Concat", "Union", "Join"} ->
            LET v1 == collectVocab(s.child1, tapes, s2i, i2s)
                v2 == collectVocab(s.child2, v1.tapes, v1.strToIndex,
                                   v1.indexToStr)
            IN  IF v1.err # NoError
                THEN [v1 EXCEPT !.state = [s EXCEPT !.child1 = v1.state]]
                ELSE [v2 EXCEPT !.state = [s EXCEPT !.child1 = v1.state,
                                                    !.child2 = v2.state]]
      [] OTHER ->
            [err |-> NoError, state |-> s, tapes |-> tapes,
             strToIndex |-> s2i, indexToStr |-> i2s]

\* a matchTape that forgets the tape it was asked for
matchTapeForgets(tapes, tapeName) == tapes \ {tapeName}

\* the tapes of the TapeCollection after matchTape(tapeName), which reads
\* _tapes with get and stores nothing
matchTapeLeaves(tapes, tapeName) == tapes

RECURSIVE TapesAfterQuery(_, _)
\* the tapes of the collection after the matchTape calls that a query of s
\* can make: one for each TextState under s (line 338)
TapesAfterQuery(s, tapes) ==
    CASE s.type \in {"Literal", "AnyChar"} ->
            matchTapeLeaves(tapes, s.tapeName)
      [] s.type \in {"Concat", "Union", "Join"} ->
            TapesAfterQuery(s.child2, TapesAfterQuery(s.child1, tapes))
      [] OTHER -> tapes

RECURSIVE TapesAfterQueue(_, _, _)
\* the tapes of the collection after the queries of one pass over queue
TapesAfterQueue(queue, k, tapes) ==
    IF k > Len(queue) THEN tapes
    ELSE TapesAfterQueue(queue, k + 1, TapesAfterQuery(queue[k].state, tapes))

RECURSIVE EnqueueKeepsOutput(_, _, _)
\* a driver that queues the successor with the output as it was
EnqueueKeepsOutput(prevOutput, trans, k) ==
    IF k > Len(trans) THEN <<>>
    ELSE IF ~trans[k].matched THEN EnqueueKeepsOutput(prevOutput, trans, k + 1)
    ELSE <<[output |-> prevOutput, state |-> trans[k].next]>>
            \o EnqueueKeepsOutput(prevOutput, trans, k + 1)

RECURSIVE EnqueueFollowsStay(_, _, _)
\* a driver that follows every transition, matched or not
EnqueueFollowsStay(prevOutput, trans, k) ==
    IF k > Len(trans) THEN <<>>
    ELSE <<[output |-> MultiTapeAdd(prevOutput, trans[k].tape, trans[k].bits),
            state |-> trans[k].next]>>
            \o EnqueueFollowsStay(prevOutput, trans, k + 1)

RECURSIVE Enqueue(_, _, _)
\* the for loop over prevState.dQuery(...) (lines 286-291)
Enqueue(prevOutput, trans, k) ==
    IF k > Len(trans) THEN <<>>
    ELSE IF ~trans[k].matched THEN Enqueue(prevOutput, trans, k + 1)
    ELSE <<[output |-> MultiTapeAdd(prevOutput, trans[k].tape, trans[k].bits),
            state |-> trans[k].next]>> \o Enqueue(prevOutput, trans, k + 1)

RECURSIVE ProcessQueue(_, _, _, _)
\* the for loop over stateQueue (lines 283-291)
ProcessQueue(queue, k, nextQueue, out) ==
    IF k > Len(queue)
    THEN [err |-> NoError, nextQueue |-> nextQueue, yielded |-> out]
    ELSE LET prevOutput == queue[k].output
             prevState == queue[k].state
             out1 == IF accepting(prevState, symbolStack)
                     THEN out \o toStrings(prevOutput) ELSE out
             d == dQuery(prevState, TapeCollection, ANY_CHAR, symbolStack)
         IN  IF d.err # NoError
             THEN [err |-> d.err, nextQueue |-> nextQueue, yielded |-> out1]
             ELSE ProcessQueue(queue, k + 1,
                               nextQueue \o Enqueue(prevOutput, d.trans, 1),
                               out1)

\* what history keeps of an invocation that has ended
Finished(call, vocab, records, status, queued, n, iterations) ==
    [grammar |-> call.grammar, maxChars |-> call.maxChars, vocab |-> vocab,
     records |-> records, status |-> status, queued |-> queued,
     chars |-> n, steps |-> iterations]

Running == plan[callNo]

\* generate up to the while loop (lines 274-279)
StartGenerate ==
    /\ pc = "idle"
    /\ callNo < Len(plan)
    /\ LET call == plan[callNo + 1]
           v == collectVocab(call.grammar, {}, strToIndex, indexToStr)
       IN  /\ callNo' = callNo + 1
           /\ strToIndex' = v.strToIndex
           /\ indexToStr' = v.indexToStr
           /\ allTapes' = v.tapes
           /\ symbolStack' = CounterStack(call.maxRecursion)
           /\ maxChars' = call.maxChars
           /\ chars' = 0
           /\ steps' = 0
           /\ yielded' = <<>>
           /\ IF v.err # NoError
              THEN /\ pc' = "idle"
                   /\ stateQueue' = <<>>
                   /\ history' = Append(history,
                          Finished(call, v.indexToStr, <<>>, v.err, 0, 0, 0))
              ELSE /\ pc' = "loop"
                   /\ stateQueue' = <<[output |-> MultiTapeOutput,
                                       state |-> v.state]>>
                   /\ history' = history
    /\ UNCHANGED <<plan, callArgs, callResult>>

\* one pass through the body of the while loop (lines 282-293)
Step ==
    /\ pc = "loop"
    /\ Len(stateQueue) > 0 /\ chars < maxChars
    /\ LET r == ProcessQueue(stateQueue, 1, <<>>, yielded)
       IN  /\ yielded' = r.yielded
           /\ steps' = steps + 1
           /\ IF r.err # NoError
              THEN /\ pc' = "idle"
                   /\ history' = Append(history,
                          Finished(Running, indexToStr, r.yielded, r.err,
                                   Len(stateQueue), chars, steps + 1))
                   /\ UNCHANGED <<stateQueue, chars>>
              ELSE /\ stateQueue' = r.nextQueue
                   /\ chars' = chars + 1
                   /\ UNCHANGED <<pc, history>>
    /\ allTapes' = TapesAfterQueue(stateQueue, 1, allTapes)
    /\ UNCHANGED <<plan, callNo, strToIndex, indexToStr, symbolStack,
                   maxChars, callArgs, callResult>>

\* the while test fails and generate returns (line 281)
Return ==
    /\ pc = "loop"
    /\ ~(Len(stateQueue) > 0 /\ chars < maxChars)
    /\ pc' = "idle"
    /\ history' = Append(history,
           Finished(Running, indexToStr, yielded, "done", Len(stateQueue),
                    chars, steps))
    /\ UNCHANGED <<plan, callNo, strToIndex, indexToStr, allTapes, symbolStack,
                   maxChars, stateQueue, chars, steps, yielded, callArgs,
                   callResult>>

Next == StartGenerate \/ Step \/ Return

Call(grammar, n) ==
    [grammar |-> grammar, maxRecursion |-> DefaultMaxRecursion, maxChars |-> n]

\* the state of a process that has imported the module and called nothing
InitProcess(plans) ==
    /\ plan \in plans
    /\ callNo = 0
    /\ strToIndex = <<>>
    /\ indexToStr = <<>>
    /\ pc = "idle"
    /\ allTapes = {}
    /\ symbolStack = CounterStack(DefaultMaxRecursion)
    /\ maxChars = DefaultMaxChars
    /\ stateQueue = <<>>
    /\ chars = 0
    /\ steps = 0
    /\ yielded = <<>>
    /\ history = <<>>
    /\ callArgs = <<>>
    /\ callResult = <<>>

---------------------------------------------------------------------------
(* The grammars and the calls that are enumerated *)

Texts == UNION {[1 .. n -> Chars] : n \in 0 .. MaxLen}

ShortTexts == {s \in Texts : Len(s) <= 1}

\* 33 distinct characters, one more than a Token has bits
Roster ==
    <<"a", "b", "c", "d", "e", "f", "g", "h", "i", "j", "k", "l", "m", "n", "o",
      "p", "q", "r", "s", "t", "u", "v", "w", "x", "y", "z", "A", "B", "C", "D",
      "E", "F", "G">>

FullText == SubSeq(Roster, 1, MAX_NUM_CHARS)

WideText == SubSeq(Roster, 1, MAX_NUM_CHARS + 1)

LastText == <<Roster[MAX_NUM_CHARS + 1]>>

Lits == {Lit(t, s) : t \in TapeNames, s \in Texts}

ShortLits == {Lit(t, s) : t \in TapeNames, s \in ShortTexts}

Anys == {AnyCharState(t) : t \in TapeNames}

Composites ==
    { Uni(<<Lit("T", <<"a">>), Lit("T", <<"a", "b">>)>>),
      Uni(<<Lit("T", <<"a">>), Lit("T", <<"a">>)>>),
      Uni(<<Lit("T", <<"a">>), Lit("U", <<"b">>)>>),
      Uni(<<Lit("T", <<>>), Lit("T", <<"a">>)>>),
      SeqOf(<<Lit("T", <<"a">>), Lit("U", <<"b">>)>>),
      SeqOf(<<Lit("T", <<>>), Lit("U", <<"a">>)>>),
      SeqOf(<<Uni(<<Lit("T", <<"a">>), Lit("T", <<"b">>)>>),
            Uni(<<Lit("T", <<"b">>), Lit("U", <<"a">>)>>)>>),
      SeqOf(<<Lit("T", <<"a">>), AnyCharState("T")>>),
      SeqOf(<<Lit("T", <<"a">>), AnyCharState("U")>>),
      SeqOf(<<AnyCharState("T"), Lit("T", <<"a", "b">>)>>),
      Uni(<<Lit("T", <<"a">>), AnyCharState("U")>>),
      Uni(<<Lit("T", <<"a", "b">>), AnyCharState("T")>>),
      Uni(<<AnyCharState("T"), AnyCharState("U")>>) }

Grammars == Lits \cup Anys \cup Composites

MaxCharsValues == (0 .. MaxCharsBound) \cup {DefaultMaxChars}

\* generate() on a literal, or on the sequence of two literals of one tape
LitPlans ==
    LET texts == Texts \cup {FullText, LastText}
    IN  {<<Call(Lit(t, s), n)>> :
            t \in TapeNames, s \in texts \cup {WideText}, n \in MaxCharsValues}
        \cup {<<Call(Lit(t1, s1), DefaultMaxChars),
                Call(Lit(t2, s2), DefaultMaxChars)>> :
                t1 \in TapeNames, t2 \in TapeNames,
                s1 \in texts, s2 \in texts}
        \cup {<<Call(SeqOf(<<Lit(t, s1), Lit(t, s2)>>), DefaultMaxChars)>> :
                t \in TapeNames, s1 \in texts, s2 \in texts}

InitLit == InitProcess(LitPlans)

SpecLit == InitLit /\ [][Next]_vars

---------------------------------------------------------------------------
(* What the invocations that have ended show *)

Ended == {history[i] : i \in 1 .. Len(history)}

IsLit(g) == g.type = "Literal"

\* the alphabet of the process still fits a Token after collectVocab
Fits(h) == Cardinality(DOMAIN h.vocab) <= MAX_NUM_CHARS

\* the one-field record {tapeName: text}
Rec(tapeName, text) == [n \in {tapeName} |-> text]

\* C1 as the spec states it: with the default bounds generate(Lit(T, s))
\* yields exactly one record {T: s}, the empty string s included.
C1_Original ==
    \A h \in Ended :
        (IsLit(h.grammar) /\ h.maxChars = DefaultMaxChars /\ Fits(h))
            => h.records = <<Rec(h.grammar.tapeName, h.grammar.text)>>

\* C1 amended: when the alphabet fits a Token, generate(Lit(T, s)) with
\* maxChars above the length of s (the default included) returns after
\* yielding exactly one record, {T: s} for a non-empty s and the empty record
\* {} for the empty s; with maxChars at or below the length of s it yields
\* nothing.
C1_Literal ==
    \A h \in Ended :
        (IsLit(h.grammar) /\ Fits(h))
            => /\ h.status = "done"
               /\ h.records =
                    IF Len(h.grammar.text) >= h.maxChars THEN <<>>
                    ELSE IF h.grammar.text = <<>> THEN <<NoRecord>>
                    ELSE <<Rec(h.grammar.tapeName, h.grammar.text)>>

\* a process that has enumerated an empty literal and then a literal of two
\* characters, on the default bounds
C1_Witness ==
    /\ Len(history) = 2
    /\ history[1].grammar = Lit("T", <<>>)
    /\ history[1].records = <<NoRecord>>
    /\ history[2].grammar = Lit("T", <<"a", "b">>)
    /\ history[2].maxChars = DefaultMaxChars
    /\ history[2].records = <<Rec("T", <<"a", "b">>)>>

IsLitPair(g) ==
    /\ g.type = "Concat"
    /\ IsLit(g.child1) /\ IsLit(g.child2)
    /\ g.child1.tapeName = g.child2.tapeName

\* C2 as the spec states it: generate(Seq(Lit(T, s1), Lit(T, s2))) yields
\* exactly one record {T: s1 + s2}.
C2_Original ==
    \A h \in Ended :
        (IsLitPair(h.grammar) /\ Fits(h))
            => h.records = <<Rec(h.grammar.child1.tapeName,
                                 h.grammar.child1.text \o h.grammar.child2.text)>>

\* C2 amended: when the alphabet fits a Token, generate(Seq(Lit(T, s1),
\* Lit(T, s2))) on the default bounds returns after yielding exactly one
\* record: {T: s1 + s2} when s1 + s2 is not empty, and the empty record {}
\* when both s1 and s2 are empty.
C2_Concatenation ==
    \A h \in Ended :
        (IsLitPair(h.grammar) /\ Fits(h))
            => LET text == h.grammar.child1.text \o h.grammar.child2.text
               IN  /\ h.status = "done"
                   /\ h.records = IF text = <<>> THEN <<NoRecord>>
                                  ELSE <<Rec(h.grammar.child1.tapeName, text)>>

\* the sequence of "ab" and "ba" on one tape has been enumerated
C2_Witness ==
    \E h \in Ended :
        /\ h.grammar = SeqOf(<<Lit("T", <<"a", "b">>), Lit("T", <<"b", "a">>)>>)
        /\ h.records = <<Rec("T", <<"a", "b", "b", "a">>)>>

---------------------------------------------------------------------------
(* Comparing the records of the invocations of one process *)

Count(records, r) == Cardinality({i \in DOMAIN records : records[i] = r})

Records(records) == {records[i] : i \in DOMAIN records}

\* the same records, each as many times, in any order
SameMultiset(a, b) ==
    \A r \in Records(a) \cup Records(b) : Count(a, r) = Count(b, r)

SameSet(a, b) == Records(a) = Records(b)

\* Seq(Lit(t, ""), X), then X, then Seq(X, Lit(t, ""))
IdentityPlans ==
    {<<Call(SeqOf(<<Lit(t, <<>>), x>>), DefaultMaxChars),
       Call(x, DefaultMaxChars),
       Call(SeqOf(<<x, Lit(t, <<>>)>>), DefaultMaxChars)>> :
        x \in Grammars, t \in TapeNames}

InitIdentity == InitProcess(IdentityPlans)

SpecIdentity == InitIdentity /\ [][Next]_vars

\* C3: the empty literal is a left and a right identity of Seq: for every
\* grammar X and tape T, generate(Seq(Lit(T, ""), X)), generate(X) and
\* generate(Seq(X, Lit(T, ""))) give the same records.
C3_Identity ==
    Len(history) = 3
        => /\ SameMultiset(history[1].records, history[2].records)
           /\ SameMultiset(history[2].records, history[3].records)

\* Seq(Seq(A, B), C), then the flat Seq(A, B, C), which the right fold of Seq
\* makes Seq(A, Seq(B, C))
AssocPlans ==
    {<<Call(SeqOf(<<SeqOf(<<a, b>>), c>>), DefaultMaxChars),
       Call(SeqOf(<<a, b, c>>), DefaultMaxChars)>> :
        a \in Grammars, b \in ShortLits, c \in ShortLits}

InitAssoc == InitProcess(AssocPlans)

SpecAssoc == InitAssoc /\ [][Next]_vars

\* C4: Seq is associative up to output equality: the left-nested and the
\* flat (right-nested) Seq over the same grammars make generate yield the
\* same multiset of records.  Only invocations that returned are compared.
C4_Associativity ==
    (/\ Len(history) = 2
     /\ history[1].status = "done"
     /\ history[2].status = "done")
        => SameMultiset(history[1].records, history[2].records)

\* Uni(A, B), then Uni(B, A)
UniPlans ==
    {<<Call(Uni(<<a, b>>), DefaultMaxChars),
       Call(Uni(<<b, a>>), DefaultMaxChars)>> :
        a \in Grammars, b \in Grammars}

InitUni == InitProcess(UniPlans)

SpecUni == InitUni /\ [][Next]_vars

\* C5: Uni is commutative up to multiset equality: generate(Uni(A, B)) and
\* generate(Uni(B, A)) yield the same multiset of records, also when A and B
\* are on different tapes.
C5_Commutativity ==
    Len(history) = 2
        => SameMultiset(history[1].records, history[2].records)

\* Seq(Uni(A, B), C), then Seq(A, C), then Seq(B, C)
DistribPlans ==
    {<<Call(SeqOf(<<Uni(<<a, b>>), c>>), DefaultMaxChars),
       Call(SeqOf(<<a, c>>), DefaultMaxChars),
       Call(SeqOf(<<b, c>>), DefaultMaxChars)>> :
        a \in Lits \cup Composites, b \in Lits, c \in ShortLits}

InitDistrib == InitProcess(DistribPlans)

SpecDistrib == InitDistrib /\ [][Next]_vars

RECURSIVE HasAnyChar(_)
\* the grammar holds an AnyCharState
HasAnyChar(g) ==
    CASE g.type = "AnyChar" -> TRUE
      [] g.type \in {"Concat", "Union"} ->
            HasAnyChar(g.child1) \/ HasAnyChar(g.child2)
      [] OTHER -> FALSE

---------------------------------------------------------------------------
(* The determinizer, on the states that generate queries *)

QueryGrammars ==
    Grammars
        \cup {SeqOf(<<a, b>>) : a \in ShortLits \cup Anys, b \in Lits \cup Anys}
        \cup {Uni(<<a, b>>) : a \in Lits \cup Anys, b \in Lits \cup Anys}
        \cup {Uni(<<a, b, c>>) :
                a \in ShortLits, b \in ShortLits \cup Anys, c \in Anys}

QueryPlans == {<<Call(g, DefaultMaxChars)>> : g \in QueryGrammars}

InitQuery == InitProcess(QueryPlans)

SpecQuery == InitQuery /\ [][Next]_vars

RECURSIVE SubStates(_)
\* a state and the states it is built from
SubStates(s) ==
    IF s.type \in {"Concat", "Union"}
    THEN {s} \cup SubStates(s.child1) \cup SubStates(s.child2)
    ELSE {s}

\* the states the running generate holds
Queried == UNION {SubStates(stateQueue[i].state) : i \in DOMAIN stateQueue}

\* the tapes a query can name: the collection, or one of its tapes
QueryTapes == {TapeCollection} \cup {StringTape(t) : t \in allTapes}

Disjoint(trans, i, j) == isEmpty(and_(trans[i].bits, trans[j].bits))

SameTape(t1, t2) == TapeName(t1.tape) = TapeName(t2.tape)

RECURSIVE InUnionTree(_, _)
\* tree is the state leaf, or a tree of UnionStates with leaf as a leaf
InUnionTree(leaf, tree) ==
    \/ tree = leaf
    \/ /\ tree.type = "Union"
       /\ \/ InUnionTree(leaf, tree.child1)
          \/ InUnionTree(leaf, tree.child2)

\* the transitions of trans on the tape name of t that contain the bit b
Holding(trans, t, b) ==
    {i \in DOMAIN trans : SameTape(trans[i], t) /\ b \in trans[i].bits}

\* C8: dQuery loses and invents nothing.  For every transition of ndQuery on
\* a tape with numTapes != 0 and every bit b of its token, exactly one
\* transition of dQuery on that tape name contains b, its successor is the
\* ndQuery successor or a Union tree with it as a leaf, and its matched flag
\* is the OR of the flags of the ndQuery transitions containing b; and every
\* bit of a dQuery transition on such a tape is in an ndQuery token on it.
C8_NothingLostOrInvented ==
    \A s \in Queried : \A q \in QueryTapes :
        LET nd == ndQuery(s, q, ANY_CHAR, symbolStack)
            d == dQuery(s, q, ANY_CHAR, symbolStack)
        IN  nd.err = NoError
                => /\ d.err = NoError
                   /\ \A k \in DOMAIN nd.trans :
                        NumTapes(nd.trans[k].tape) # 0
                            => \A b \in nd.trans[k].bits :
                                LET got == Holding(d.trans, nd.trans[k], b)
                                    from == Holding(nd.trans, nd.trans[k], b)
                                IN  /\ Cardinality(got) = 1
                                    /\ \A i \in got :
                                        /\ InUnionTree(nd.trans[k].next,
                                                       d.trans[i].next)
                                        /\ d.trans[i].matched
                                             = (\E n \in from :
                                                  nd.trans[n].matched)
                   /\ \A i \in DOMAIN d.trans :
                        NumTapes(d.trans[i].tape) # 0
                            => \A b \in d.trans[i].bits :
                                Holding(nd.trans, d.trans[i], b) # {}

\* a queried state of which ndQuery yields a matched and an unmatched
\* transition that share a bit on one tape: dQuery splits the unmatched one
\* and puts its successor under a matched transition to a Union
C8_Witness ==
    \E s \in Queried : \E q \in QueryTapes :
        LET nd == ndQuery(s, q, ANY_CHAR, symbolStack)
            d == dQuery(s, q, ANY_CHAR, symbolStack)
        IN  /\ nd.err = NoError
            /\ \E i, j \in DOMAIN nd.trans :
                    /\ SameTape(nd.trans[i], nd.trans[j])
                    /\ NumTapes(nd.trans[i].tape) # 0
                    /\ nd.trans[i].matched /\ ~nd.trans[j].matched
                    /\ ~Disjoint(nd.trans, i, j)
                    /\ nd.trans[j].bits # nd.trans[i].bits
                    /\ \E m \in DOMAIN d.trans :
                        /\ d.trans[m].matched
                        /\ d.trans[m].next # nd.trans[j].next
                        /\ InUnionTree(nd.trans[j].next, d.trans[m].next)

---------------------------------------------------------------------------
(* The bounds of generate *)

\* generate(g, maxChars = n), some other literal, generate(g, maxChars = m)
BoundsPlans ==
    {<<Call(g, n), Call(Lit("T", s), DefaultMaxChars), Call(g, m)>> :
        g \in Grammars, s \in ShortTexts,
        n \in MaxCharsValues, m \in MaxCharsValues}

InitBounds == InitProcess(BoundsPlans)

SpecBounds == InitBounds /\ [][Next]_vars

\* C9: generate terminates: the loop performs at most maxChars iterations,
\* and an invocation stops exactly when its queue is empty or its step
\* counter has reached maxChars.
C9_StopsWhenDone ==
    /\ pc = "loop" => steps <= maxChars
    /\ \A h \in Ended :
        /\ h.steps <= h.maxChars
        /\ h.queued = 0 \/ h.chars = h.maxChars

IsPrefix(a, b) == Len(a) <= Len(b) /\ a = SubSeq(b, 1, Len(a))

\* C10: for any grammar and bounds n <= m, the records of
\* generate(maxChars = n) are a prefix of the records of
\* generate(maxChars = m).
C10_Prefix ==
    \A i, j \in DOMAIN history :
        (/\ history[i].grammar = history[j].grammar
         /\ history[i].maxChars <= history[j].maxChars)
            => IsPrefix(history[i].records, history[j].records)

---------------------------------------------------------------------------
(* The constructors Seq() and Uni(), called by the client *)

BuildAtoms ==
    {Lit("T", <<"a">>), Lit("U", <<"b">>), Lit("T", <<>>), AnyCharState("T")}

ChildSeqs == UNION {[1 .. n -> BuildAtoms] : n \in 0 .. MaxChildren}

\* the client calls Seq(*children)
CallSeq ==
    /\ pc = "idle"
    /\ \E children \in ChildSeqs :
        /\ callArgs' = [fn |-> "Seq", children |-> children]
        /\ callResult' = SeqOf(children)
    /\ UNCHANGED <<plan, callNo, strToIndex, indexToStr, pc, allTapes,
                   symbolStack, maxChars, stateQueue, chars, steps, yielded,
                   history>>

\* the client calls Uni(*children)
CallUni ==
    /\ pc = "idle"
    /\ \E children \in ChildSeqs :
        /\ callArgs' = [fn |-> "Uni", children |-> children]
        /\ callResult' = Uni(children)
    /\ UNCHANGED <<plan, callNo, strToIndex, indexToStr, pc, allTapes,
                   symbolStack, maxChars, stateQueue, chars, steps, yielded,
                   history>>

NextBuild == CallSeq \/ CallUni

InitBuild == InitProcess({<<>>})

SpecBuild == InitBuild /\ [][NextBuild]_vars

RECURSIVE RightNested(_, _, _)
\* the binary tree node(c[k], node(c[k+1], ... c[n]))
RightNested(node, children, k) ==
    IF k = Len(children) THEN children[k]
    ELSE [type |-> node, child1 |-> children[k],
          child2 |-> RightNested(node, children, k + 1)]

\* C11: Seq() and Uni() with no children raise StateError; with one child
\* they return that child; with two or more they build the right-nested
\* tree Concat(c1, Concat(c2, ...)) or Union(c1, Union(c2, ...)).
C11_Constructors ==
    callArgs # <<>>
        => LET children == callArgs.children
               node == IF callArgs.fn = "Seq" THEN "Concat" ELSE "Union"
           IN  /\ Len(children) = 0 => callResult.type = "StateError"
               /\ Len(children) = 1 => callResult = children[1]
               /\ Len(children) >= 2
                    => callResult = RightNested(node, children, 1)

\* Seq() was called with three children and returned
\* Concat(c1, Concat(c2, c3))
C11_Witness ==
    /\ callArgs # <<>>
    /\ callArgs.fn = "Seq"
    /\ Len(callArgs.children) = 3
    /\ callResult = ConcatState(callArgs.children[1],
                                ConcatState(callArgs.children[2],
                                            callArgs.children[3]))

---------------------------------------------------------------------------
(* Join of two literals of one tape *)

JoinPlans ==
    LET texts == Texts \cup {FullText, WideText}
    IN  {<<Call(Join(Lit(t, s1), Lit(t, s2)), DefaultMaxChars)>> :
            t \in TapeNames, s1 \in texts, s2 \in texts}

InitJoin == InitProcess(JoinPlans)

SpecJoin == InitJoin /\ [][Next]_vars

IsLitJoin(g) ==
    /\ g.type = "Join"
    /\ IsLit(g.child1) /\ IsLit(g.child2)
    /\ g.child1.tapeName = g.child2.tapeName

\* C12 as the spec states it: generate(Join(Lit(T, s), Lit(T, s))) yields
\* exactly one record {T: s}, and generate(Join(Lit(T, s), Lit(T, s')))
\* yields no record when s differs from s'.
C12_Original ==
    \A h \in Ended :
        (IsLitJoin(h.grammar) /\ Fits(h))
            => h.records =
                 IF h.grammar.child1.text = h.grammar.child2.text
                 THEN <<Rec(h.grammar.child1.tapeName, h.grammar.child1.text)>>
                 ELSE <<>>

\* C12 amended: when the alphabet fits a Token, generate(Join(Lit(T, s),
\* Lit(T, s'))) returns after yielding no record when s differs from s',
\* the one record {T: s} when s = s' is not empty, and the one empty record
\* {} when both are empty.
C12_Intersection ==
    \A h \in Ended :
        (IsLitJoin(h.grammar) /\ Fits(h))
            => /\ h.status = "done"
               /\ h.records =
                    IF h.grammar.child1.text # h.grammar.child2.text THEN <<>>
                    ELSE IF h.grammar.child1.text = <<>> THEN <<NoRecord>>
                    ELSE <<Rec(h.grammar.child1.tapeName,
                               h.grammar.child1.text)>>

\* the join of a literal of two characters with itself has yielded its one
\* record
C12_Witness ==
    /\ Len(history) = 1
    /\ history[1].grammar = Join(Lit("T", <<"a", "b">>), Lit("T", <<"a", "b">>))
    /\ history[1].records = <<Rec("T", <<"a", "b">>)>>

---------------------------------------------------------------------------
(* Join of a literal with a pattern that holds one dot *)

\* Seq(Lit(t, x), Any(t), Lit(t, y)); the tests' Any(t) is AnyCharState(t)
DotPattern(t, x, y) == SeqOf(<<Lit(t, x), AnyCharState(t), Lit(t, y)>>)

DotJoin(t, x, y, w, flip) ==
    IF flip THEN Join(DotPattern(t, x, y), Lit(t, w))
    ELSE Join(Lit(t, w), DotPattern(t, x, y))

\* the words that have one character at the dot, and the word that has none
DotWords(x, y) == {x \o <<c>> \o y : c \in Chars} \cup {x \o y}

DotPlans ==
    {<<Call(DotJoin(t, x, y, w, flip), DefaultMaxChars)>> :
        <<t, x, y, w, flip>> \in
            {q \in TapeNames \X ShortTexts \X ShortTexts \X Texts
                    \X BOOLEAN : q[4] \in DotWords(q[2], q[3])}}
    \cup {<<Call(DotJoin(t, x, y, x \o <<c>> \o y, flip), DefaultMaxChars)>> :
            t \in TapeNames, x \in ShortTexts, y \in ShortTexts,
            c \in Chars, flip \in BOOLEAN}

InitDot == InitProcess(DotPlans)

SpecDot == InitDot /\ [][Next]_vars

\* C14: a pattern Seq of literals with one Any(T), joined with Lit(T, w),
\* yields exactly the record {T: w} when w has exactly one character at the
\* dot and matches the literals elsewhere, and yields nothing when w is one
\* character shorter.
C14_Dot ==
    \A t \in TapeNames, x \in ShortTexts, y \in ShortTexts, flip \in BOOLEAN :
        \A w \in DotWords(x, y) :
            \A h \in Ended :
                h.grammar = DotJoin(t, x, y, w, flip)
                    => /\ h.status = "done"
                       /\ h.records = IF w = x \o y THEN <<>>
                                      ELSE <<Rec(t, w)>>

---------------------------------------------------------------------------
(* A client that builds a CounterStack and adds to it *)

SymbolNames == {"S", "V"}

MaxValues == (0 .. MaxRecursionBound) \cup {DefaultMaxRecursion}

\* counter = CounterStack(max)
NewCounter ==
    /\ pc = "idle"
    /\ callArgs = <<>>
    /\ \E max \in MaxValues :
        /\ callArgs' = [fn |-> "CounterStack", max |-> max]
        /\ callResult' = CounterStack(max)
        /\ symbolStack' = CounterStack(max)
    /\ UNCHANGED <<plan, callNo, strToIndex, indexToStr, pc, allTapes,
                   maxChars, stateQueue, chars, steps, yielded, history>>

\* counter = counter.add(key); history keeps the call, the stack it was
\* called on before and after the call, and what it returned
AddKey ==
    /\ pc = "idle"
    /\ callArgs # <<>>
    /\ Len(history) < MaxAdds
    /\ \E key \in SymbolNames :
        LET r == add(symbolStack, key)
        IN  /\ callArgs' = [fn |-> "add", key |-> key]
            /\ callResult' = r.result
            /\ symbolStack' = r.result
            /\ history' = Append(history,
                    [key |-> key, before |-> symbolStack, after |-> r.self,
                     result |-> r.result])
    /\ UNCHANGED <<plan, callNo, strToIndex, indexToStr, pc, allTapes,
                   maxChars, stateQueue, chars, steps, yielded>>

NextCounter == NewCounter \/ AddKey

InitCounter == InitProcess({<<>>})

SpecCounter == InitCounter /\ [][NextCounter]_vars

\* C16: add(key) returns a new stack with the same max in which the count
\* of key is one higher than before (1 for a fresh key) and the count of
\* every other key is unchanged, and it leaves the stack it was called on
\* unchanged.
C16_AddIsNonDestructive ==
    \A i \in 1 .. Len(history) :
        LET e == history[i]
        IN  /\ e.result.max = e.before.max
            /\ get(e.result, e.key) = get(e.before, e.key) + 1
            /\ e.key \notin DOMAIN e.before.stack => e.result.stack[e.key] = 1
            /\ \A k \in SymbolNames \ {e.key} :
                    /\ get(e.result, k) = get(e.before, k)
                    /\ k \in DOMAIN e.result.stack
                        <=> k \in DOMAIN e.before.stack
            /\ DOMAIN e.result.stack = DOMAIN e.before.stack \cup {e.key}
            /\ e.after = e.before

\* a fresh key has been added to a stack that counts another key twice
C16_Witness ==
    /\ Len(history) = 3
    /\ history[3].key = "V"
    /\ history[3].before.stack = ("S" :> 2)
    /\ history[3].after.stack = ("S" :> 2)
    /\ history[3].result.stack = ("S" :> 2) @@ ("V" :> 1)

\* how many of the first n add calls of the chain were for key
Added(key, n) == Cardinality({i \in 1 .. n : history[i].key = key})

\* the stack that the first n add calls of the chain produced
StackAfter(n) == IF n = 0 THEN CounterStack(symbolStack.max)
                 ELSE history[n].result

\* C17: for a stack obtained from CounterStack(max) by a chain of add
\* calls, exceedsMax(key) holds iff key was added at least max times along
\* the chain, and once it holds for a stack it holds for every stack derived
\* from it by further adds.
C17_ExceedsMax ==
    callArgs # <<>>
        => \A k \in SymbolNames :
            /\ \A n \in 0 .. Len(history) :
                    exceedsMax(StackAfter(n), k)
                        <=> Added(k, n) >= StackAfter(n).max
            /\ \A m \in 0 .. Len(history) : \A n \in m .. Len(history) :
                    exceedsMax(StackAfter(m), k) => exceedsMax(StackAfter(n), k)

\* with max 2, S was added twice and V once: the stack exceeds the max for S
\* and not for V, and it did not exceed it for S one add earlier
C17_Witness ==
    /\ Len(history) = 3
    /\ symbolStack.max = 2
    /\ Added("S", 3) = 2 /\ Added("V", 3) = 1
    /\ history[3].key = "S"
    /\ exceedsMax(symbolStack, "S")
    /\ ~exceedsMax(symbolStack, "V")
    /\ ~exceedsMax(history[3].before, "S")

---------------------------------------------------------------------------
(* A client that tokenizes strings through one TapeCollection *)

\* the dictionaries that each tape of the collection holds: TapeCollection
\* builds every tape as StringTape(tapeName), so strToIndex and indexToStr
\* are the two default-argument dictionaries, the same objects for all tapes
TapeDicts(tapes, s2i, i2s) ==
    [t \in tapes |-> [strToIndex |-> s2i, indexToStr |-> i2s]]

TokenizeTexts == Texts \cup {FullText, LastText, WideText}

\* tapes.tokenize(tapeName, string) on the TapeCollection of the client;
\* history keeps the call, the tapes that the collection held before it, the
\* dictionaries of each tape before and after it (those of the tape being
\* tokenized are the ones StringTape(tapeName) is built with when the call
\* creates it), and how the call ended
Tokenize ==
    /\ pc = "idle"
    /\ Len(history) < MaxTokenizes
    /\ \E tapeName \in TapeNames, string \in TokenizeTexts :
        LET r == tokenize(strToIndex, indexToStr, string)
        IN  /\ allTapes' = allTapes \cup {tapeName}
            /\ strToIndex' = r.strToIndex
            /\ indexToStr' = r.indexToStr
            /\ callArgs' = [fn |-> "tokenize", tapeName |-> tapeName,
                            string |-> string]
            /\ callResult' = IF r.err = NoError THEN r.tokens ELSE Raise(r.err)
            /\ history' = Append(history,
                    [tapeName |-> tapeName, string |-> string, err |-> r.err,
                     tapes |-> allTapes,
                     before |-> TapeDicts(allTapes \cup {tapeName},
                                          strToIndex, indexToStr),
                     after |-> TapeDicts(allTapes \cup {tapeName},
                                         r.strToIndex, r.indexToStr)])
    /\ UNCHANGED <<plan, callNo, pc, symbolStack, maxChars, stateQueue, chars,
                   steps, yielded>>

NextTapes == Tokenize

InitTapes == InitProcess({<<>>})

SpecTapes == InitTapes /\ [][NextTapes]_vars

\* the tokens that are decoded in the checks: the token of each of the
\* first indices alone, and the token of all characters
SomeTokens == {{k} : k \in 0 .. MaxLen} \cup {ANY_CHAR}

\* C18: tokenizing a string on tape A leaves the alphabet of every other
\* tape B unchanged: toBits and fromBits on B return the same values before
\* and after the call, and a character registered only on A is never
\* decoded on B.
C18_OwnAlphabet ==
    \A i \in 1 .. Len(history) :
        LET e == history[i]
        IN  \A B \in e.tapes \ {e.tapeName} :
                /\ \A c \in Chars :
                        toBits(e.after[B].strToIndex, c)
                            = toBits(e.before[B].strToIndex, c)
                /\ \A bits \in SomeTokens :
                        fromBitsIn(e.after[B].indexToStr, bits)
                            = fromBitsIn(e.before[B].indexToStr, bits)

\* C20: the alphabet of a tape never holds more than MAX_NUM_CHARS
\* characters, and a tokenize call that fails leaves the alphabet as it was
\* before the call.
C20_AlphabetBounded ==
    /\ Cardinality(DOMAIN strToIndex) <= MAX_NUM_CHARS
    /\ \A i \in 1 .. Len(history) :
        LET e == history[i]
        IN  e.err # NoError => e.after[e.tapeName] = e.before[e.tapeName]

---------------------------------------------------------------------------
(* Two invocations of generate on one grammar *)

\* C19: two invocations of generate on the same grammar with the same
\* bounds yield the same sequence of records, whatever was generated in
\* between.
C19_Reproducible ==
    \A i, j \in DOMAIN history :
        (/\ history[i].grammar = history[j].grammar
         /\ history[i].maxChars = history[j].maxChars)
            => /\ history[i].records = history[j].records
               /\ history[i].status = history[j].status

---------------------------------------------------------------------------
(* Encoding and decoding the characters of a tape *)

RosterChars == {Roster[k] : k \in 1 .. Len(Roster)}

\* C21: on every tape, toBits(name, c) is a one-hot bit set of width
\* MAX_NUM_CHARS when c is registered and the empty bit set otherwise, and
\* fromBits(name, toBits(name, c)) is [c] for a registered c and [] for an
\* unregistered one.
C21_RoundTrip ==
    \A t \in allTapes : \A c \in RosterChars :
        LET dicts == TapeDicts(allTapes, strToIndex, indexToStr)[t]
            b == toBits(dicts.strToIndex, c)
        IN  /\ b.err = NoError
            /\ b.bits \subseteq ANY_CHAR
            /\ IF c \in DOMAIN dicts.strToIndex
               THEN /\ Cardinality(b.bits) = 1
                    /\ fromBitsIn(dicts.indexToStr, b.bits) = <<c>>
               ELSE /\ b.bits = {}
                    /\ fromBitsIn(dicts.indexToStr, b.bits) = <<>>

\* strToIndex and indexToStr are inverse maps over the indices 0 .. N-1
Inverse(s2i, i2s) ==
    /\ DOMAIN i2s = 0 .. (Cardinality(DOMAIN s2i) - 1)
    /\ \A c \in DOMAIN s2i : s2i[c] \in DOMAIN i2s /\ i2s[s2i[c]] = c
    /\ \A k \in DOMAIN i2s : i2s[k] \in DOMAIN s2i /\ s2i[i2s[k]] = k

\* every character of the dictionary s2i is in later with the same index
Keeps(s2i, later) ==
    \A c \in DOMAIN s2i : c \in DOMAIN later /\ later[c] = s2i[c]

\* C22: after any sequence of tokenize calls, the strToIndex and indexToStr
\* of a tape are mutually inverse maps over the contiguous indices
\* 0 .. N-1, the alphabet only grows, and a character once registered keeps
\* its index in every later alphabet.
C22_Alphabet ==
    /\ \A t \in allTapes :
            LET dicts == TapeDicts(allTapes, strToIndex, indexToStr)[t]
            IN  Inverse(dicts.strToIndex, dicts.indexToStr)
    /\ \A i \in 1 .. Len(history) :
            /\ \A t \in DOMAIN history[i].after :
                    Inverse(history[i].after[t].strToIndex,
                            history[i].after[t].indexToStr)
            /\ \A j \in i .. Len(history) :
                    \A t \in DOMAIN history[i].before :
                        /\ Keeps(history[i].before[t].strToIndex,
                                 history[j].after[t].strToIndex)
                        /\ Keeps(history[i].after[t].strToIndex,
                                 history[j].after[t].strToIndex)

\* two tokenize calls have registered a and then b; the second call met a
\* again and left it at index 0
C22_Witness ==
    /\ Len(history) = 2
    /\ history[1].string = <<"a">> /\ history[1].tapeName = "T"
    /\ history[2].string = <<"b", "a">> /\ history[2].tapeName = "T"
    /\ strToIndex = ("a" :> 0) @@ ("b" :> 1)
    /\ indexToStr = (0 :> "a") @@ (1 :> "b")

---------------------------------------------------------------------------
(* Operations that name a tape, called by the client *)

TapeError == "TapeError"

\* a tokenize that tests the tape name only after it has tokenized
StringTapeTokenizeLateTest(self, tapeName, s2i, i2s, string) ==
    LET r == tokenize(s2i, i2s, string)
    IN  IF tapeName # self.tapeName
        THEN [err |-> TapeError, tokens |-> <<>>,
              strToIndex |-> r.strToIndex, indexToStr |-> r.indexToStr]
        ELSE r

\* StringTape.tokenize with its test of the tape name (lines 246-248)
StringTapeTokenize(self, tapeName, s2i, i2s, string) ==
    IF tapeName # self.tapeName
    THEN [err |-> TapeError, tokens |-> <<>>,
          strToIndex |-> s2i, indexToStr |-> i2s]
    ELSE tokenize(s2i, i2s, string)

\* StringTape.toBits with its test of the tape name (lines 266-268)
StringTapeToBits(self, tapeName, s2i, char) ==
    IF tapeName # self.tapeName THEN [err |-> TapeError, bits |-> {}]
    ELSE toBits(s2i, char)

\* StringTape.fromBits with its test of the tape name (lines 279-281)
StringTapeFromBits(self, tapeName, i2s, bits) ==
    IF tapeName # self.tapeName THEN [err |-> TapeError, chars |-> <<>>]
    ELSE [err |-> NoError, chars |-> fromBitsIn(i2s, bits)]

\* TapeCollection.toBits, on the collection that holds tapes
CollectionToBits(tapes, tapeName, s2i, char) ==
    IF tapeName \notin tapes THEN [err |-> TapeError, bits |-> {}]
    ELSE StringTapeToBits(StringTape(tapeName), tapeName, s2i, char)

\* TapeCollection.fromBits, on the collection that holds tapes
CollectionFromBits(tapes, tapeName, i2s, bits) ==
    IF tapeName \notin tapes THEN [err |-> TapeError, chars |-> <<>>]
    ELSE StringTapeFromBits(StringTape(tapeName), tapeName, i2s, bits)

\* SingleTapeOutput.add, on the last node of the chain self
SingleTapeAdd(self, tape, token) ==
    IF TapeName(tape) # TapeName(self[Len(self)].tape)
    THEN [err |-> TapeError, nodes |-> self]
    ELSE [err |-> NoError, nodes |-> SingleTapeOutput(tape, token, self)]

\* what callArgs keeps of a call: the function, the object it is called on,
\* the tape name and the other argument it is given, and the tapes and
\* dictionaries as they were before the call
Called(fn, self, tapeName, arg) ==
    [fn |-> fn, self |-> self, tapeName |-> tapeName, arg |-> arg,
     tapes |-> allTapes, strToIndex |-> strToIndex, indexToStr |-> indexToStr]

\* what callResult keeps of a call: the exception it raised, if any, and
\* the value it returned
Returned(err, value) == [err |-> err, value |-> value]

\* tapes.tokenize(tapeName, ""), which creates the tape
NewTape ==
    /\ pc = "idle"
    /\ \E tapeName \in TapeNames \ allTapes :
        LET r == tokenize(strToIndex, indexToStr, <<>>)
        IN  /\ callArgs' = Called("TapeCollection.tokenize", "tapes",
                                  tapeName, <<>>)
            /\ callResult' = Returned(r.err, r.tokens)
            /\ allTapes' = allTapes \cup {tapeName}
            /\ strToIndex' = r.strToIndex
            /\ indexToStr' = r.indexToStr
    /\ UNCHANGED <<plan, callNo, pc, symbolStack, maxChars, stateQueue, chars,
                   steps, yielded, history>>

\* tapes.matchTape(t).tokenize(tapeName, string)
TapeTokenize ==
    /\ pc = "idle"
    /\ \E t \in allTapes, tapeName \in TapeNames, string \in ShortTexts :
        LET r == StringTapeTokenize(StringTape(t), tapeName, strToIndex,
                                    indexToStr, string)
        IN  /\ callArgs' = Called("StringTape.tokenize", t, tapeName, string)
            /\ callResult' = Returned(r.err, r.tokens)
            /\ strToIndex' = r.strToIndex
            /\ indexToStr' = r.indexToStr
    /\ UNCHANGED <<plan, callNo, pc, allTapes, symbolStack, maxChars,
                   stateQueue, chars, steps, yielded, history>>

\* tapes.matchTape(t).toBits(tapeName, char)
TapeToBits ==
    /\ pc = "idle"
    /\ \E t \in allTapes, tapeName \in TapeNames, char \in Chars :
        LET r == StringTapeToBits(StringTape(t), tapeName, strToIndex, char)
        IN  /\ callArgs' = Called("StringTape.toBits", t, tapeName, char)
            /\ callResult' = Returned(r.err, r.bits)
    /\ UNCHANGED <<plan, callNo, strToIndex, indexToStr, pc, allTapes,
                   symbolStack, maxChars, stateQueue, chars, steps, yielded,
                   history>>

\* tapes.matchTape(t).fromBits(tapeName, bits)
TapeFromBits ==
    /\ pc = "idle"
    /\ \E t \in allTapes, tapeName \in TapeNames, bits \in SomeTokens :
        LET r == StringTapeFromBits(StringTape(t), tapeName, indexToStr, bits)
        IN  /\ callArgs' = Called("StringTape.fromBits", t, tapeName, bits)
            /\ callResult' = Returned(r.err, r.chars)
    /\ UNCHANGED <<plan, callNo, strToIndex, indexToStr, pc, allTapes,
                   symbolStack, maxChars, stateQueue, chars, steps, yielded,
                   history>>

\* tapes.toBits(tapeName, char)
CallCollectionToBits ==
    /\ pc = "idle"
    /\ \E tapeName \in TapeNames, char \in Chars :
        LET r == CollectionToBits(allTapes, tapeName, strToIndex, char)
        IN  /\ callArgs' = Called("TapeCollection.toBits", "tapes",
                                  tapeName, char)
            /\ callResult' = Returned(r.err, r.bits)
    /\ UNCHANGED <<plan, callNo, strToIndex, indexToStr, pc, allTapes,
                   symbolStack, maxChars, stateQueue, chars, steps, yielded,
                   history>>

\* tapes.fromBits(tapeName, bits)
CallCollectionFromBits ==
    /\ pc = "idle"
    /\ \E tapeName \in TapeNames, bits \in SomeTokens :
        LET r == CollectionFromBits(allTapes, tapeName, indexToStr, bits)
        IN  /\ callArgs' = Called("TapeCollection.fromBits", "tapes",
                                  tapeName, bits)
            /\ callResult' = Returned(r.err, r.chars)
    /\ UNCHANGED <<plan, callNo, strToIndex, indexToStr, pc, allTapes,
                   symbolStack, maxChars, stateQueue, chars, steps, yielded,
                   history>>

\* SingleTapeOutput(tapes.matchTape(t), first, None).add(tape, token), with
\* tape a StringTape that need not be in the collection
CallSingleTapeAdd ==
    /\ pc = "idle"
    /\ \E t \in allTapes, tapeName \in TapeNames, token \in SomeTokens :
        LET chain == SingleTapeOutput(StringTape(t), {0}, <<>>)
            r == SingleTapeAdd(chain, StringTape(tapeName), token)
        IN  /\ callArgs' = Called("SingleTapeOutput.add", chain, tapeName,
                                  token)
            /\ callResult' = Returned(r.err, r.nodes)
    /\ UNCHANGED <<plan, callNo, strToIndex, indexToStr, pc, allTapes,
                   symbolStack, maxChars, stateQueue, chars, steps, yielded,
                   history>>

NextNames ==
    \/ NewTape
    \/ TapeTokenize
    \/ TapeToBits
    \/ TapeFromBits
    \/ CallCollectionToBits
    \/ CallCollectionFromBits
    \/ CallSingleTapeAdd

InitNames == InitProcess({<<>>})

SpecNames == InitNames /\ [][NextNames]_vars

\* the call named the wrong tape: a name other than the StringTape's own,
\* a name the TapeCollection does not hold, or a tape other than the
\* chain's
WrongTape ==
    CASE callArgs.fn \in {"StringTape.tokenize", "StringTape.toBits",
                          "StringTape.fromBits"} ->
            callArgs.tapeName # callArgs.self
      [] callArgs.fn \in {"TapeCollection.toBits",
                          "TapeCollection.fromBits"} ->
            callArgs.tapeName \notin callArgs.tapes
      [] callArgs.fn = "SingleTapeOutput.add" ->
            callArgs.tapeName # callArgs.self[1].tape.tapeName
      [] OTHER -> FALSE

\* C23: an operation that names the wrong tape raises TapeError and changes
\* nothing: no character is registered and no tape is added; an operation
\* that names the right tape does not raise TapeError.
C23_WrongTape ==
    callArgs # <<>>
        => IF WrongTape
           THEN /\ callResult.err = TapeError
                /\ strToIndex = callArgs.strToIndex
                /\ indexToStr = callArgs.indexToStr
                /\ allTapes = callArgs.tapes
           ELSE callResult.err # TapeError

\* tape T was asked to tokenize the unregistered character b under the
\* name U: the call raised TapeError and b is still unregistered
C23_Witness ==
    /\ callArgs # <<>>
    /\ callArgs.fn = "StringTape.tokenize"
    /\ callArgs.self = "T" /\ callArgs.tapeName = "U"
    /\ callArgs.arg = <<"b">>
    /\ callResult.err = TapeError
    /\ strToIndex = ("a" :> 0)

---------------------------------------------------------------------------
(* A client that builds a MultiTapeOutput and reads it *)

OutputTokens == {{0}, {1}, ANY_CHAR}

\* the tapes that the client can hand to add: the collection and its tapes
OutputTapes == {TapeCollection} \cup {StringTape(t) : t \in allTapes}

OutputCalls == {"MultiTapeOutput.add", "MultiTapeOutput.toStrings"}

\* the output that the client holds: a new MultiTapeOutput() after a call
\* on the tapes, and otherwise the one the last call on an output left
Held ==
    IF callArgs # <<>> /\ callArgs.fn \in OutputCalls
    THEN callResult.output ELSE MultiTapeOutput

RECURSIVE TotalNodes(_)
TotalNodes(output) ==
    IF output = <<>> THEN 0
    ELSE Len(output[1].nodes) + TotalNodes(Tail(output))

\* output = output.add(tape, token); callArgs keeps the receiver and what
\* its toStrings returned before the call, callResult the receiver as the
\* call leaves it
OutputAdd ==
    /\ pc = "idle"
    /\ TotalNodes(Held) < MaxOutputNodes
    /\ \E tape \in OutputTapes, token \in OutputTokens :
        /\ callArgs' = [fn |-> "MultiTapeOutput.add", self |-> Held,
                        tape |-> tape, token |-> token,
                        strings |-> MultiTapeToStrings(Held)]
        /\ callResult' = [output |-> MultiTapeAdd(Held, tape, token),
                          self |-> Held,
                          value |-> MultiTapeAdd(Held, tape, token)]
    /\ UNCHANGED <<plan, callNo, strToIndex, indexToStr, pc, allTapes,
                   symbolStack, maxChars, stateQueue, chars, steps, yielded,
                   history>>

\* output.toStrings()
OutputToStrings ==
    /\ pc = "idle"
    /\ callArgs' = [fn |-> "MultiTapeOutput.toStrings", self |-> Held,
                    tape |-> None, token |-> {},
                    strings |-> MultiTapeToStrings(Held)]
    /\ callResult' = [output |-> Held, self |-> Held,
                      value |-> MultiTapeToStrings(Held)]
    /\ UNCHANGED <<plan, callNo, strToIndex, indexToStr, pc, allTapes,
                   symbolStack, maxChars, stateQueue, chars, steps, yielded,
                   history>>

NextOutput == NewTape \/ TapeTokenize \/ OutputAdd \/ OutputToStrings

InitOutput == InitProcess({<<>>})

SpecOutput == InitOutput /\ [][NextOutput]_vars

Entries(output) == {output[k] : k \in 1 .. Len(output)}

\* the chain of the tape called name in output, <<>> when there is none
NodesOf(output, name) ==
    IF HasTape(output, name)
    THEN (CHOOSE e \in Entries(output) : e.tapeName = name).nodes
    ELSE <<>>

\* C24: add(tape, token) returns a new output whose entry for tape.tapeName
\* is a new node that points to the previous node of that tape, whose
\* entries for all other tapes are those of the receiver, and it leaves the
\* receiver and its toStrings result unchanged; when tape.numTapes is 0 it
\* returns the receiver itself.
C24_CopyOnWrite ==
    (callArgs # <<>> /\ callArgs.fn = "MultiTapeOutput.add")
        => LET self == callArgs.self
               new == callResult.value
               name == TapeName(callArgs.tape)
           IN  /\ callResult.self = self
               /\ MultiTapeToStrings(callResult.self) = callArgs.strings
               /\ IF NumTapes(callArgs.tape) = 0 THEN new = self
                  ELSE /\ HasTape(new, name)
                       /\ NodesOf(new, name)
                            = NodesOf(self, name)
                                \o <<[tape |-> callArgs.tape,
                                      token |-> callArgs.token]>>
                       /\ {e \in Entries(new) : e.tapeName # name}
                            = {e \in Entries(self) : e.tapeName # name}
                       /\ Len(new) = Cardinality(Entries(new))
                       /\ Cardinality(Entries(new))
                            = Cardinality({e.tapeName : e \in Entries(new)})

\* a token was added on tape U to an output that held one node on tape T:
\* the new output holds the same T entry and a U entry of one node
C24_Witness ==
    /\ callArgs # <<>>
    /\ callArgs.fn = "MultiTapeOutput.add"
    /\ callArgs.tape = StringTape("U")
    /\ Len(callArgs.self) = 1
    /\ callArgs.self[1].tapeName = "T"
    /\ Len(callResult.value) = 2
    /\ callResult.value[1] = callArgs.self[1]
    /\ callResult.value[2].tapeName = "U"
    /\ Len(callResult.value[2].nodes) = 1
    /\ callArgs.strings.records # <<>>

\* the names of the tapes that output holds a chain for
NamesOf(output) == {e.tapeName : e \in Entries(output)}

\* the strings that the chain of the tape called name enumerates
StringsOf(output, name) ==
    LET strings == getStrings(NodesOf(output, name))
    IN  {strings[k] : k \in 1 .. Len(strings)}

\* every choice of one string of each tape of output, as a record
Combinations(output) ==
    LET all == UNION {StringsOf(output, n) : n \in NamesOf(output)}
    IN  {f \in [NamesOf(output) -> all] :
            \A n \in NamesOf(output) : f[n] \in StringsOf(output, n)}

\* records holds each combination of output exactly once
IsProduct(output, records) ==
    /\ Records(records) = Combinations(output)
    /\ Len(records) = Cardinality(Combinations(output))
    /\ \A k \in 1 .. Len(records) : DOMAIN records[k] = NamesOf(output)
    /\ (output = MultiTapeOutput) => (records = <<NoRecord>>)

---------------------------------------------------------------------------
(* RenamedTape, called by the client *)

RenamedTape(child, fromTape, toTape) ==
    [kind |-> "RenamedTape", child |-> child,
     fromTape |-> fromTape, toTape |-> toTape]

\* a renaming that is applied backwards
adjustTapeNameBackwards(self, tapeName) ==
    IF tapeName = self.toTape THEN self.fromTape ELSE tapeName

\* RenamedTape._adjustTapeName
adjustTapeName(self, tapeName) ==
    IF tapeName = self.fromTape THEN self.toTape ELSE tapeName

TapeOps == {"tokenize", "toBits", "fromBits", "matchTape",
            "any", "add", "match"}

\* what a call on a tape returns: the exception, the value (in a sequence of
\* one element, empty when the call raised), and the tapes of the collection
\* and the dictionaries after the call
TapeReturn(err, value, tapes, s2i, i2s) ==
    [err |-> err, value |-> value, tapes |-> tapes,
     strToIndex |-> s2i, indexToStr |-> i2s]

\* the methods of StringTape
StringTapeCall(self, op, tapeName, arg, tapes, s2i, i2s) ==
    CASE op = "tokenize" ->
            LET r == StringTapeTokenize(self, tapeName, s2i, i2s, arg)
            IN  TapeReturn(r.err, r.tokens, tapes,
                           r.strToIndex, r.indexToStr)
      [] op = "toBits" ->
            LET r == StringTapeToBits(self, tapeName, s2i, arg)
            IN  TapeReturn(r.err, IF r.err = NoError THEN <<r.bits>>
                                  ELSE <<>>, tapes, s2i, i2s)
      [] op = "fromBits" ->
            LET r == StringTapeFromBits(self, tapeName, i2s, arg)
            IN  TapeReturn(r.err, r.chars, tapes, s2i, i2s)
      [] op = "matchTape" ->
            TapeReturn(NoError,
                       <<IF tapeName = self.tapeName THEN self ELSE None>>,
                       tapes, s2i, i2s)
      [] op = "any" -> TapeReturn(NoError, <<AnyToken>>, tapes, s2i, i2s)
      [] op = "add" ->
            TapeReturn(NoError, <<arg[1] \o arg[2]>>, tapes, s2i, i2s)
      [] op = "match" ->
            TapeReturn(NoError, <<Match(arg[1], arg[2])>>, tapes, s2i, i2s)

\* the methods of TapeCollection; any, add and match are those of Tape
CollectionCall(op, tapeName, arg, tapes, s2i, i2s) ==
    CASE op = "tokenize" ->
            LET r == StringTapeTokenize(StringTape(tapeName), tapeName,
                                        s2i, i2s, arg)
            IN  TapeReturn(r.err, r.tokens, tapes \cup {tapeName},
                           r.strToIndex, r.indexToStr)
      [] op = "toBits" ->
            LET r == CollectionToBits(tapes, tapeName, s2i, arg)
            IN  TapeReturn(r.err, IF r.err = NoError THEN <<r.bits>>
                                  ELSE <<>>, tapes, s2i, i2s)
      [] op = "fromBits" ->
            LET r == CollectionFromBits(tapes, tapeName, i2s, arg)
            IN  TapeReturn(r.err, r.chars, tapes, s2i, i2s)
      [] op = "matchTape" ->
            TapeReturn(NoError,
                       <<IF tapeName \in tapes THEN StringTape(tapeName)
                         ELSE None>>,
                       tapes, s2i, i2s)
      [] op \in {"any", "add", "match"} ->
            TapeReturn("NotImplementedError", <<>>, tapes, s2i, i2s)

RECURSIVE TapeCall(_, _, _, _, _, _, _)
\* tape.op(...), with the methods of RenamedTape (lines 398-428)
TapeCall(tape, op, tapeName, arg, tapes, s2i, i2s) ==
    CASE tape.kind = "StringTape" ->
            StringTapeCall(tape, op, tapeName, arg, tapes, s2i, i2s)
      [] tape.kind = "TapeCollection" ->
            CollectionCall(op, tapeName, arg, tapes, s2i, i2s)
      [] tape.kind = "RenamedTape" ->
            IF op \in {"any", "add", "match"}
            THEN TapeCall(tape.child, op, tapeName, arg, tapes, s2i, i2s)
            ELSE LET r == TapeCall(tape.child, op,
                                   adjustTapeName(tape, tapeName), arg,
                                   tapes, s2i, i2s)
                 IN  IF op = "matchTape" /\ r.value # <<None>>
                     THEN TapeReturn(r.err,
                            <<RenamedTape(r.value[1], tape.fromTape,
                                          tape.toTape)>>,
                            tapes, s2i, i2s)
                     ELSE r

\* the names that the client renames and calls with
RenameNames == TapeNames \cup {"X"}

Renamings == {<<"X", "T">>, <<"T", "U">>}

\* the arguments that the client gives to op
ArgsOf(op) ==
    CASE op = "tokenize" -> ShortTexts
      [] op = "toBits" -> Chars
      [] op = "fromBits" -> {{0}, ANY_CHAR}
      [] op = "add" -> {<< <<"a">>, <<"b">> >>}
      [] op = "match" -> {<<{0}, ANY_CHAR>>}
      [] OTHER -> {<<>>}

RenamedCalls == {"RenamedTape.__init__"} \cup {"RenamedTape." \o op : op \in TapeOps}

\* the RenamedTape that the client holds
HeldRenamed == callArgs # <<>> /\ callArgs.fn \in RenamedCalls

\* RenamedTape(child, fromTape, toTape), with child the collection, a tape
\* of the collection, or the RenamedTape that the client holds
NewRenamedTape ==
    /\ pc = "idle"
    /\ \E child \in OutputTapes
                \cup (IF HeldRenamed /\ callArgs.self.child.kind # "RenamedTape"
                      THEN {callArgs.self} ELSE {}),
          r \in Renamings :
        /\ callArgs' = [fn |-> "RenamedTape.__init__",
                        self |-> RenamedTape(child, r[1], r[2]),
                        op |-> "__init__", tapeName |-> "", arg |-> <<>>,
                        tapes |-> allTapes, strToIndex |-> strToIndex,
                        indexToStr |-> indexToStr]
        /\ callResult' = Returned(NoError, <<>>)
    /\ UNCHANGED <<plan, callNo, strToIndex, indexToStr, pc, allTapes,
                   symbolStack, maxChars, stateQueue, chars, steps, yielded,
                   history>>

\* renamed.op(tapeName, arg) on the RenamedTape that the client holds
RenamedCall ==
    /\ pc = "idle"
    /\ HeldRenamed
    /\ \E op \in TapeOps, tapeName \in RenameNames :
        \E arg \in ArgsOf(op) :
            LET r == TapeCall(callArgs.self, op, tapeName, arg, allTapes,
                              strToIndex, indexToStr)
            IN  /\ callArgs' = [fn |-> "RenamedTape." \o op,
                                self |-> callArgs.self,
                                op |-> op, tapeName |-> tapeName,
                                arg |-> arg, tapes |-> allTapes,
                                strToIndex |-> strToIndex,
                                indexToStr |-> indexToStr]
                /\ callResult' = Returned(r.err, r.value)
                /\ allTapes' = r.tapes
                /\ strToIndex' = r.strToIndex
                /\ indexToStr' = r.indexToStr
    /\ UNCHANGED <<plan, callNo, pc, symbolStack, maxChars, stateQueue, chars,
                   steps, yielded, history>>

NextRename == NewTape \/ TapeTokenize \/ NewRenamedTape \/ RenamedCall

InitRename == InitProcess({<<>>})

SpecRename == InitRename /\ [][NextRename]_vars

\* what the child of the called RenamedTape does when it is called with
\* tapeName, in the state before the call
ChildCall(tapeName) ==
    TapeCall(callArgs.self.child, callArgs.op, tapeName, callArgs.arg,
             callArgs.tapes, callArgs.strToIndex, callArgs.indexToStr)

\* the call of callArgs did what the child's call r does
SameAs(r) ==
    /\ callResult.err = r.err
    /\ allTapes = r.tapes
    /\ strToIndex = r.strToIndex
    /\ indexToStr = r.indexToStr
    /\ IF callArgs.op = "matchTape" /\ r.value # <<None>>
       THEN callResult.value
                = <<RenamedTape(r.value[1], callArgs.self.fromTape,
                                callArgs.self.toTape)>>
       ELSE callResult.value = r.value

\* C26: tokenize, toBits, fromBits and matchTape called with fromTape behave
\* as the child's operation called with toTape, calls with any other name
\* are delegated unchanged, match, any and add return the child's results,
\* and matchTape returns None when the child does and otherwise the child's
\* match wrapped in the same renaming.
C26_Renaming ==
    (HeldRenamed /\ callArgs.op \in TapeOps)
        => IF callArgs.op \in {"any", "add", "match"}
           THEN SameAs(ChildCall(callArgs.tapeName))
           ELSE IF callArgs.tapeName = callArgs.self.fromTape
           THEN SameAs(ChildCall(callArgs.self.toTape))
           ELSE SameAs(ChildCall(callArgs.tapeName))

\* RenamedTape(tapes, "X", "T").tokenize("X", "a") returned one token and
\* registered the character, as tapes.tokenize("T", "a") does
C26_Witness ==
    /\ HeldRenamed
    /\ callArgs.op = "tokenize"
    /\ callArgs.self = RenamedTape(TapeCollection, "X", "T")
    /\ callArgs.tapeName = "X"
    /\ callArgs.arg = <<"a">>
    /\ "a" \notin DOMAIN callArgs.strToIndex
    /\ "a" \in DOMAIN strToIndex
    /\ callResult.err = NoError
    /\ Len(callResult.value) = 1
    /\ "X" \notin allTapes

\* matchTape with the old name returns the child's tape in the same renaming
C26_WitnessMatchTape ==
    /\ HeldRenamed
    /\ callArgs.op = "matchTape"
    /\ callArgs.tapeName = "X"
    /\ callResult.value = <<RenamedTape(StringTape("T"), "X", "T")>>

---------------------------------------------------------------------------
(* The vocabulary during the breadth-first loop *)

---------------------------------------------------------------------------
(* The queried state after a query *)

\* a _successor that removes the first token from the tokens of self
AfterSuccessorPops(s) ==
    IF s.type = "Literal" /\ Len(s.tokens) > 0
    THEN [s EXCEPT !.tokens = Tail(s.tokens)]
    ELSE s

\* the fields of self after self._successor(): LiteralState._successor
\* slices self._tokens and self.text into new lists (lines 409-415) and
\* AnyCharState._successor builds a TrivialState; neither assigns to self
AfterSuccessor(s) == s

RECURSIVE AfterQuery(_, _, _)
\* the fields of the state s after accepting, ndQuery or dQuery with tape:
\* a TextState that the tape matches and that is not accepting calls
\* _successor, and a ConcatState or UnionState queries its children and
\* builds new states from what they yield (lines 501, 506)
AfterQuery(s, tape, stack) ==
    CASE s.type \in {"Literal", "AnyChar"} ->
            IF MatchTape(tape, s.tapeName) = None \/ accepting(s, stack)
            THEN s ELSE AfterSuccessor(s)
      [] s.type \in {"Concat", "Union"} ->
            [s EXCEPT !.child1 = AfterQuery(s.child1, tape, stack),
                      !.child2 = AfterQuery(s.child2, tape, stack)]
      [] OTHER -> s

QueryTargets == {ANY_CHAR, {0}, {1}}

---------------------------------------------------------------------------
(* grable: the parser combinators of src/grable/parsers.py *)

LiteralParser(tier, text) ==
    [type |-> "LiteralParser", tier |-> tier, text |-> text]

ConcatParser(children) == [type |-> "ConcatParser", children |-> children]

AlternationParser(children) ==
    [type |-> "AlternationParser", children |-> children]

\* the names a symbol table can define
Symbols == {"S", "A"}

\* collections.Counter(elems): a count for every name, 0 for a name that
\* is not a key
Counter(elems) ==
    [v \in Symbols |-> Cardinality({k \in 1 .. Len(elems) : elems[k] = v})]

\* Counter.__add__: a new Counter, the operands are left as they are
CounterAdd(hist, counter) == [v \in Symbols |-> hist[v] + counter[v]]

\* VariableParser.__init__; self.symbol_table refers to the dictionary that
\* holds the parsers, this one included, and is handed to the call
VariableParser(var, max_recursion) ==
    [type |-> "VariableParser", var |-> var, counter |-> Counter(<<var>>),
     max_recursion |-> max_recursion]

\* an OrderedDict is the sequence of its items in insertion order
OrderedDict == <<>>

Item(key, value) == [key |-> key, value |-> value]

HasKey(dict, key) == \E k \in 1 .. Len(dict) : dict[k].key = key

\* str.startswith
startswith(string, text) ==
    Len(text) <= Len(string) /\ SubSeq(string, 1, Len(text)) = text

\* a combination that puts the new string before the old one
CombineKeyBefore(combined_output, item) ==
    IF HasKey(combined_output, item.key)
    THEN [k \in 1 .. Len(combined_output) |->
            IF combined_output[k].key = item.key
            THEN Item(item.key, item.value \o combined_output[k].value)
            ELSE combined_output[k]]
    ELSE Append(combined_output, item)

\* the body of "for key in o2.keys()" (lines 52-55)
CombineKey(combined_output, item) ==
    IF HasKey(combined_output, item.key)
    THEN [k \in 1 .. Len(combined_output) |->
            IF combined_output[k].key = item.key
            THEN Item(item.key, combined_output[k].value \o item.value)
            ELSE combined_output[k]]
    ELSE Append(combined_output, item)

RECURSIVE Combine(_, _, _)
\* "combined_output = o1.copy(); for key in o2.keys(): ..." (lines 50-55)
Combine(combined_output, o2, j) ==
    IF j > Len(o2) THEN combined_output
    ELSE Combine(CombineKey(combined_output, o2[j]), o2, j + 1)

\* results[:max_results]
Truncate(results, max_results) ==
    IF Len(results) > max_results THEN SubSeq(results, 1, max_results)
    ELSE results

\* "for o2, r2 in child(r1, ...)", with found what child yields (lines 49-56)
WithOutputs(o1, found) ==
    [j \in 1 .. Len(found) |->
        [output |-> Combine(o1, found[j].output, 1), rest |-> found[j].rest]]

\* LiteralParser.__call__
LiteralCall(self, input) ==
    IF self.tier \notin DOMAIN input
    THEN <<[output |-> <<Item(self.tier, self.text)>>, rest |-> input]>>
    ELSE IF ~startswith(input[self.tier], self.text) THEN <<>>
    ELSE <<[output |-> OrderedDict,
            rest |-> [input EXCEPT
                        ![self.tier] = SubSeq(input[self.tier],
                                              Len(self.text) + 1,
                                              Len(input[self.tier]))]]>>

\* what a call yields, and the Counter of the caller after it
Yielded(results, hist) == [results |-> results, hist |-> hist]

RECURSIVE ParserCall(_, _, _, _, _)
RECURSIVE ConcatResults(_, _, _, _, _, _)
RECURSIVE ConcatChildren(_, _, _, _, _, _)
RECURSIVE AlternationChildren(_, _, _, _, _, _, _)

\* "for o1, r1 in results" (lines 48-56)
ConcatResults(child, symbol_table, results, j, hist, max_results) ==
    IF j > Len(results) THEN Yielded(<<>>, hist)
    ELSE LET found == ParserCall(child, symbol_table, results[j].rest, hist,
                                 max_results)
             more == ConcatResults(child, symbol_table, results, j + 1,
                                   found.hist, max_results)
         IN  Yielded(WithOutputs(results[j].output, found.results)
                        \o more.results,
                     more.hist)

\* "for child in self.children" (lines 46-59)
ConcatChildren(children, symbol_table, k, results, hist, max_results) ==
    IF k > Len(children) THEN Yielded(results, hist)
    ELSE LET new_results == ConcatResults(children[k], symbol_table, results,
                                          1, hist, max_results)
         IN  ConcatChildren(children, symbol_table, k + 1,
                            IF max_results > 0
                            THEN Truncate(new_results.results, max_results)
                            ELSE new_results.results,
                            new_results.hist, max_results)

\* "for child in children" of AlternationParser.__call__ (lines 82-86): the
\* return with a value inside the generator ends it, and nothing is yielded
AlternationChildren(children, symbol_table, k, results, input, hist, max_results) ==
    IF k > Len(children) THEN Yielded(results, hist)
    ELSE LET found == ParserCall(children[k], symbol_table, input, hist,
                                 max_results)
             more == results \o found.results
         IN  IF max_results > 0 /\ Len(more) >= max_results
             THEN Yielded(<<>>, found.hist)
             ELSE AlternationChildren(children, symbol_table, k + 1, more,
                                      input, found.hist, max_results)

\* a VariableParser that recurses once more than max_recursion
VariableCallOnceMore(self, symbol_table, input, hist, max_results) ==
    IF hist[self.var] > self.max_recursion THEN Yielded(<<>>, hist)
    ELSE Yielded(ParserCall(symbol_table[self.var], symbol_table, input,
                            CounterAdd(hist, self.counter),
                            max_results).results,
                 hist)

\* VariableParser.__call__ (lines 108-113): the parser of the symbol gets
\* the new Counter hist + self.counter, and hist stays as it is
VariableCall(self, symbol_table, input, hist, max_results) ==
    IF hist[self.var] >= self.max_recursion THEN Yielded(<<>>, hist)
    ELSE Yielded(ParserCall(symbol_table[self.var], symbol_table, input,
                            CounterAdd(hist, self.counter),
                            max_results).results,
                 hist)

\* parser(input, hist, max_results), as the list of what it yields
ParserCall(self, symbol_table, input, hist, max_results) ==
    CASE self.type = "LiteralParser" ->
            Yielded(LiteralCall(self, input), hist)
      [] self.type = "ConcatParser" ->
            ConcatChildren(self.children, symbol_table, 1,
                           <<[output |-> OrderedDict, rest |-> input]>>,
                           hist, max_results)
      [] self.type = "AlternationParser" ->
            AlternationChildren(self.children, symbol_table, 1, <<>>, input,
                                hist, max_results)
      [] self.type = "VariableParser" ->
            VariableCall(self, symbol_table, input, hist, max_results)

\* a grammar that defines no symbol
NoSymbols == <<>>

Tiers == {"surf", "gl"}

LiteralParsers == {LiteralParser(t, s) : t \in Tiers, s \in ShortTexts}

ParserChildren ==
    LiteralParsers
        \cup {AlternationParser(<<LiteralParser("surf", <<"a">>),
                                  LiteralParser("surf", <<>>)>>),
              AlternationParser(<<LiteralParser("surf", <<"a">>),
                                  LiteralParser("gl", <<"b">>)>>)}

\* blep, jump, ton, sg3 of test_transduce, with one character each
Transduce ==
    <<LiteralParser("surf", <<"a">>), LiteralParser("gl", <<"a">>),
      LiteralParser("surf", <<"b">>), LiteralParser("gl", <<"b">>)>>

ParserSeqs ==
    {<<a, b>> : a \in ParserChildren, b \in ParserChildren}
        \cup {<<a, b, c>> : a \in ParserChildren, b \in LiteralParsers,
                            c \in LiteralParsers}
        \cup {Transduce}

ParserTexts == ShortTexts \cup {<<"a", "b">>, <<"a", "a">>}

ParserInputs ==
    UNION {[tiers -> ParserTexts] : tiers \in {{}, {"surf"}, {"gl"}}}
        \cup {[t \in Tiers |-> IF t = "surf" THEN s ELSE <<"a">>] :
                s \in ParserTexts}

MaxResultsValues == {-1, 1}

\* the ways to nest a ConcatParser over children
Nestings(children) ==
    LET n == Len(children)
    IN  {ConcatParser(<<ConcatParser(SubSeq(children, 1, k)),
                        ConcatParser(SubSeq(children, k + 1, n))>>) :
            k \in 1 .. n - 1}
        \cup {ConcatParser(<<children[1], ConcatParser(Tail(children))>>),
              ConcatParser(<<ConcatParser(SubSeq(children, 1, n - 1)),
                             children[n]>>)}

\* list(ConcatParser(children)(input, Counter(), max_results)), and the
\* same call on every nesting of the children, in a process that has made
\* no call yet
CallConcatParser ==
    /\ pc = "idle"
    /\ callArgs = <<>>
    /\ \E children \in ParserSeqs, input \in ParserInputs,
          max_results \in MaxResultsValues :
        /\ callArgs' = [fn |-> "ConcatParser.__call__",
                        children |-> children, input |-> input,
                        max_results |-> max_results]
        /\ callResult' =
            [flat |-> ParserCall(ConcatParser(children), NoSymbols, input,
                                 Counter(<<>>), max_results).results,
             nested |-> {ParserCall(g, NoSymbols, input, Counter(<<>>),
                                    max_results).results :
                            g \in Nestings(children)}]
    /\ UNCHANGED <<plan, callNo, strToIndex, indexToStr, pc, allTapes,
                   symbolStack, maxChars, stateQueue, chars, steps, yielded,
                   history>>

NextParse == CallConcatParser

InitParse == InitProcess({<<>>})

SpecParse == InitParse /\ [][NextParse]_vars

RECURSIVE TierText(_, _, _)
\* the texts of the literals of children on tier, from the k-th on, in order
TierText(children, tier, k) ==
    IF k > Len(children) THEN <<>>
    ELSE (IF children[k].tier = tier THEN children[k].text ELSE <<>>)
            \o TierText(children, tier, k + 1)

OnTier(children, tier) ==
    \E k \in 1 .. Len(children) : children[k].tier = tier

\* what a ConcatParser over literals is to yield: nothing when the input on
\* some tier does not start with the texts of that tier; otherwise one
\* result, whose output gives each tier that is absent from the input the
\* texts of its literals, and whose remaining input lacks them
IsTransduction(children, input, results) ==
    IF \E t \in DOMAIN input : ~startswith(input[t],
                                            TierText(children, t, 1))
    THEN results = <<>>
    ELSE /\ Len(results) = 1
         /\ DOMAIN results[1].rest = DOMAIN input
         /\ \A t \in DOMAIN input :
                TierText(children, t, 1) \o results[1].rest[t] = input[t]
         /\ {results[1].output[k].key : k \in 1 .. Len(results[1].output)}
                = {t \in Tiers \ DOMAIN input : OnTier(children, t)}
         /\ \A k \in 1 .. Len(results[1].output) :
                /\ results[1].output[k].value
                    = TierText(children, results[1].output[k].key, 1)
                /\ \A j \in 1 .. Len(results[1].output) :
                    (results[1].output[j].key = results[1].output[k].key)
                        => j = k

AllLiterals(children) ==
    \A k \in 1 .. Len(children) : children[k].type = "LiteralParser"

---------------------------------------------------------------------------
(* The order in which a ConcatState lets its children answer *)

InTrans(t, trans) == \E k \in 1 .. Len(trans) : trans[k] = t

\* child1 matched with c1: the ConcatState moves child1 and keeps child2
FromChild1(s, c1) ==
    Transition(c1.tape, c1.bits, TRUE, ConcatState(c1.next, s.child2))

\* child2 answered with c2 past child1: the ConcatState keeps child1
PastChild1(s, c2) ==
    Transition(c2.tape, c2.bits, c2.matched, ConcatState(s.child1, c2.next))

Unmatched(trans) == \E k \in 1 .. Len(trans) : ~trans[k].matched

\* C30: ConcatState.ndQuery yields a transition of child2 only if child1
\* answered the query with an unmatched transition or child1 is accepting;
\* whenever child1 matched, the successor is Concat(child1's successor,
\* child2), and whenever child2 answered past a child1 that did not match,
\* the successor is Concat(child1, child2's successor).
C30_ConcatOrder ==
    \A s \in Queried : \A q \in QueryTapes : \A target \in QueryTargets :
        LET r == ndQuery(s, q, target, symbolStack)
            c1 == dQuery(s.child1, q, target, symbolStack)
            c2 == dQuery(s.child2, q, target, symbolStack)
        IN  (s.type = "Concat" /\ r.err = NoError)
                => /\ \A k \in 1 .. Len(r.trans) :
                        \/ \E i \in 1 .. Len(c1.trans) :
                            /\ c1.trans[i].matched
                            /\ r.trans[k] = FromChild1(s, c1.trans[i])
                        \/ /\ Unmatched(c1.trans)
                           /\ \E j \in 1 .. Len(c2.trans) :
                                r.trans[k] = PastChild1(s, c2.trans[j])
                        \/ /\ accepting(s.child1, symbolStack)
                           /\ InTrans(r.trans[k], c2.trans)
                   /\ \A i \in 1 .. Len(c1.trans) :
                        IF c1.trans[i].matched
                        THEN InTrans(FromChild1(s, c1.trans[i]), r.trans)
                        ELSE \A j \in 1 .. Len(c2.trans) :
                                InTrans(PastChild1(s, c2.trans[j]), r.trans)

\* a queried ConcatState whose child1 is not accepting and does not match
\* the tape of the query, and whose child2 does: the one transition keeps
\* child1 and moves child2
C30_Witness ==
    /\ pc = "loop"
    /\ \E s \in Queried : \E q \in QueryTapes :
        /\ s.type = "Concat"
        /\ ~accepting(s.child1, symbolStack)
        /\ LET r == ndQuery(s, q, ANY_CHAR, symbolStack)
               c1 == dQuery(s.child1, q, ANY_CHAR, symbolStack)
               c2 == dQuery(s.child2, q, ANY_CHAR, symbolStack)
           IN  /\ r.err = NoError
               /\ Len(c1.trans) = 1
               /\ ~c1.trans[1].matched
               /\ Len(c2.trans) = 1
               /\ c2.trans[1].matched
               /\ r.trans = <<PastChild1(s, c2.trans[1])>>
               /\ r.trans[1].next.child2 # s.child2

\* the states that a client can query: those the running generate holds
\* and, before generate is called, the grammar as it was built
Queryable ==
    Queried \cup (IF callNo = 0 /\ Len(plan) > 0
                  THEN SubStates(plan[1].grammar) ELSE {})

NumMatched(trans) == Cardinality({k \in 1 .. Len(trans) : trans[k].matched})

\* trans holds each matched transition of child1 and each transition of
\* child2 as a transition of the ConcatState s, and nothing more
YieldsEachOnce(s, c1, c2, trans) ==
    /\ Len(trans) = NumMatched(c1) + Len(c2)
    /\ \A j \in 1 .. Len(c2) : InTrans(PastChild1(s, c2[j]), trans)
    /\ \A i \in 1 .. Len(c1) :
        c1[i].matched => InTrans(FromChild1(s, c1[i]), trans)

---------------------------------------------------------------------------
(* What the states answer *)

IsText(s) == s.type \in {"Literal", "AnyChar"}

\* the tape q of a query resolves to the tape called name
Resolves(q, name) ==
    IF q.kind = "TapeCollection" THEN name \in allTapes
    ELSE q.tapeName = name

\* C32: a Literal or AnyChar state yields exactly one transition
\* (tape, target, false, self) when the queried tape does not resolve to its
\* tape name, even if it is accepting; on its own tape it yields nothing
\* when it is accepting and otherwise exactly one transition
\* (matchedTape, firstToken AND target, true, successor).
C32_TextQuery ==
    \A s \in Queryable : \A q \in QueryTapes : \A target \in QueryTargets :
        IsText(s) =>
            LET r == ndQuery(s, q, target, symbolStack)
                first == IF s.type = "Literal" THEN s.tokens[1] ELSE ANY_CHAR
            IN  /\ r.err = NoError
                /\ IF ~Resolves(q, s.tapeName)
                   THEN r.trans = <<Transition(q, target, FALSE, s)>>
                   ELSE IF accepting(s, symbolStack) THEN r.trans = <<>>
                   ELSE /\ Len(r.trans) = 1
                        /\ r.trans[1].tape = StringTape(s.tapeName)
                        /\ r.trans[1].bits = first \cap target
                        /\ r.trans[1].matched
                        /\ IF s.type = "AnyChar"
                           THEN r.trans[1].next = TrivialState
                           ELSE /\ r.trans[1].next.type = "Literal"
                                /\ r.trans[1].next.tapeName = s.tapeName
                                /\ r.trans[1].next.tokens = Tail(s.tokens)

\* the loop holds a literal that has ended, and a query on another tape of
\* the collection gets the one unmatched transition back
C32_Witness ==
    /\ pc = "loop"
    /\ \E s \in Queried : \E q \in QueryTapes :
        /\ s.type = "Literal"
        /\ s.tokens = <<>>
        /\ q.kind = "StringTape"
        /\ q.tapeName # s.tapeName
        /\ ndQuery(s, q, ANY_CHAR, symbolStack).trans
            = <<Transition(q, ANY_CHAR, FALSE, s)>>

\* the one-hot token of a registered character
OneHot(char) == {strToIndex[char]}

\* a literal that generate holds has one token for each character of its
\* text, is accepting iff none is left, and moves on its own tape to the
\* literal of the remaining tokens and text with the token of the first
LiteralsAdvance ==
    \A s \in Queried :
        s.type = "Literal" =>
            /\ Len(s.tokens) = Len(s.text)
            /\ \A k \in 1 .. Len(s.text) : s.tokens[k] = OneHot(s.text[k])
            /\ accepting(s, symbolStack) <=> (Len(s.text) = 0)
            /\ LET d == dQuery(s, StringTape(s.tapeName), ANY_CHAR,
                           symbolStack)
               IN  /\ d.err = NoError
                   /\ IF Len(s.text) = 0 THEN d.trans = <<>>
                      ELSE d.trans
                            = <<Transition(StringTape(s.tapeName),
                                           OneHot(s.text[1]), TRUE,
                                           LiteralState(s.tapeName,
                                                        Tail(s.text),
                                                        Tail(s.tokens),
                                                        s.tapes))>>

\* an AnyCharState is not accepting and moves to TrivialState
AnyCharsAdvance ==
    \A s \in Queried :
        s.type = "AnyChar" =>
            /\ ~accepting(s, symbolStack)
            /\ LET d == dQuery(s, StringTape(s.tapeName), ANY_CHAR,
                           symbolStack)
               IN  /\ d.err = NoError
                   /\ Len(d.trans) = 1
                   /\ d.trans[1].matched
                   /\ d.trans[1].next = TrivialState

\* a TrivialState is accepting and a query of it yields no transition
TrivialsEnd ==
    \A s \in Queried : \A q \in QueryTapes :
        s.type = "Trivial" =>
            /\ accepting(s, symbolStack)
            /\ dQuery(s, q, ANY_CHAR, symbolStack) = Yield(<<>>)

\* C33: a LiteralState for text s advances, after collectVocab, through
\* len(s) matched transitions on its tape, each with the one-hot token of
\* the next character, to successors that hold the remaining tokens and
\* text, and is accepting iff none is left; TrivialState is always accepting
\* and has no transitions; AnyCharState is never accepting and its successor
\* is TrivialState.
C33_Lifecycle == LiteralsAdvance /\ AnyCharsAdvance /\ TrivialsEnd

\* the states that the transitions of trans lead to
NextsOf(trans) == {trans[k].next : k \in 1 .. Len(trans)}

\* two transitions of trans on one tape with numTapes != 0 share bits, and
\* t carries bits that both have
FromOverlap(t, trans) ==
    \E i, j \in 1 .. Len(trans) :
        /\ i # j
        /\ NumTapes(trans[i].tape) # 0
        /\ TapeName(trans[i].tape) = TapeName(trans[j].tape)
        /\ TapeName(t.tape) = TapeName(trans[i].tape)
        /\ t.bits # {}
        /\ t.bits \subseteq (trans[i].bits \cap trans[j].bits)

\* C34: a UnionState is accepting iff at least one child is (a ConcatState
\* iff both are); UnionState.ndQuery yields the transitions of child1.dQuery
\* followed by those of child2.dQuery, with the successors of the children
\* as they are; a UnionState that is not a successor of a child arises only
\* in dQuery, for two transitions on the same tape that overlap.
C34_Union ==
    \A s \in Queryable : \A q \in QueryTapes : \A target \in QueryTargets :
        LET nd == ndQuery(s, q, target, symbolStack)
            d == dQuery(s, q, target, symbolStack)
            c1 == dQuery(s.child1, q, target, symbolStack)
            c2 == dQuery(s.child2, q, target, symbolStack)
        IN  /\ s.type = "Union" =>
                /\ accepting(s, symbolStack)
                    <=> (accepting(s.child1, symbolStack)
                            \/ accepting(s.child2, symbolStack))
                /\ nd.err = NoError => nd.trans = c1.trans \o c2.trans
            /\ s.type = "Concat" =>
                (accepting(s, symbolStack)
                    <=> (accepting(s.child1, symbolStack)
                            /\ accepting(s.child2, symbolStack)))
            /\ (s.type \in {"Concat", "Union"} /\ nd.err = NoError) =>
                \A k \in 1 .. Len(nd.trans) :
                    nd.trans[k].next.type = "Union"
                        => nd.trans[k].next
                            \in NextsOf(c1.trans) \cup NextsOf(c2.trans)
            /\ (IsText(s) /\ nd.err = NoError) =>
                \A k \in 1 .. Len(nd.trans) :
                    nd.trans[k].next.type # "Union"
            /\ d.err = NoError =>
                \A k \in 1 .. Len(d.trans) :
                    \/ d.trans[k].next \in NextsOf(nd.trans)
                    \/ /\ d.trans[k].next.type = "Union"
                       /\ FromOverlap(d.trans[k], nd.trans)

\* the loop holds a UnionState whose children both match with tokens that
\* overlap: ndQuery yields the two transitions, and dQuery a transition to
\* the UnionState of the two successors
C34_Witness ==
    /\ pc = "loop"
    /\ \E s \in Queried :
        /\ s.type = "Union"
        /\ LET nd == ndQuery(s, TapeCollection, ANY_CHAR, symbolStack)
               d == dQuery(s, TapeCollection, ANY_CHAR, symbolStack)
               c1 == dQuery(s.child1, TapeCollection, ANY_CHAR, symbolStack)
               c2 == dQuery(s.child2, TapeCollection, ANY_CHAR, symbolStack)
           IN  /\ Len(c1.trans) = 1
               /\ Len(c2.trans) = 1
               /\ c1.trans # c2.trans
               /\ nd.trans = c1.trans \o c2.trans
               /\ Len(d.trans) = 1
               /\ d.trans[1].next = UnionState(c2.trans[1].next,
                                               c1.trans[1].next)

---------------------------------------------------------------------------
(* What the driver follows *)

\* what the driver's query of a queued state returns
DriverQuery(entry) ==
    dQuery(entry.state, TapeCollection, ANY_CHAR, symbolStack)

\* entry is what a matched transition from a state of queue leaves
Followed(entry, queue) ==
    \E k \in 1 .. Len(queue) :
        LET trans == DriverQuery(queue[k]).trans
        IN  \E j \in 1 .. Len(trans) :
                /\ trans[j].matched
                /\ entry.state = trans[j].next
                /\ entry.output
                    = MultiTapeAdd(queue[k].output, trans[j].tape,
                                   trans[j].bits)

RECURSIVE MatchedInQueue(_, _)
\* how many matched transitions the states of queue give, from entry k on
MatchedInQueue(queue, k) ==
    IF k > Len(queue) THEN 0
    ELSE NumMatched(DriverQuery(queue[k]).trans)
            + MatchedInQueue(queue, k + 1)

\* C35: the driver never follows a stay transition: after a pass of the
\* loop of generate the next queue holds one entry for each matched
\* transition that the dQuery of a queued state returned, with the token of
\* that transition added to the output of the queued state, and no entry
\* for a transition with matched = false.
C35_NoStay ==
    [][(pc = "loop" /\ pc' = "loop" /\ steps' = steps + 1) =>
        /\ Len(stateQueue') = MatchedInQueue(stateQueue, 1)
        /\ \A i \in 1 .. Len(stateQueue') :
                Followed(stateQueue'[i], stateQueue)]_vars

\* the first pass is over; the start state gave a transition that was not
\* matched and one that was, and the queue holds one entry
C35_Witness ==
    /\ pc = "loop"
    /\ steps = 1
    /\ Len(stateQueue) = 1
    /\ LET v == collectVocab(Running.grammar, {}, <<>>, <<>>)
           trans == dQuery(v.state, TapeCollection, ANY_CHAR,
                           symbolStack).trans
       IN  /\ Len(trans) = 2
           /\ NumMatched(trans) = 1
           /\ \E j \in 1 .. 2 :
                /\ trans[j].matched
                /\ stateQueue[1].state = trans[j].next

---------------------------------------------------------------------------
(* VariableParser and the recursion it bounds *)

MaxParserRecursion == 3

\* "a" repeated m times
Repeat(m) == [k \in 1 .. m |-> "a"]

\* S is left-recursive: S := (S + "a") | "a"
LeftRecursive(n) ==
    [v \in Symbols |->
        IF v = "S"
        THEN AlternationParser(
                <<ConcatParser(<<VariableParser("S", n),
                                 LiteralParser("surf", <<"a">>)>>),
                  LiteralParser("surf", <<"a">>)>>)
        ELSE LiteralParser("surf", <<"a">>)]

\* S and A refer to each other: S := (A + "a") | "a", A := S
MutuallyRecursive(n) ==
    [v \in Symbols |->
        IF v = "S"
        THEN AlternationParser(
                <<ConcatParser(<<VariableParser("A", n),
                                 LiteralParser("surf", <<"a">>)>>),
                  LiteralParser("surf", <<"a">>)>>)
        ELSE VariableParser("S", n)]

\* S refers to A twice, one after the other: S := A + A
Siblings(n) ==
    [v \in Symbols |->
        IF v = "S"
        THEN ConcatParser(<<VariableParser("A", n), VariableParser("A", n)>>)
        ELSE LiteralParser("surf", <<"a">>)]

SymbolTables(n) == {LeftRecursive(n), MutuallyRecursive(n), Siblings(n)}

\* parse "a"..."a" on the surface tier, or generate it
VariableInputs ==
    {[t \in {"surf"} |-> Repeat(m)] : m \in 0 .. MaxParserRecursion + 1}
        \cup {[t \in {"gl"} |-> <<>>]}

Histories == [Symbols -> 0 .. 1] \cup {[v \in Symbols |-> 2]}

\* list(VariableParser(symbol_table, var, max_recursion)(input, hist,
\* max_results)), in a process that has made no call yet
CallVariableParser ==
    /\ pc = "idle"
    /\ callArgs = <<>>
    /\ \E n \in 0 .. MaxParserRecursion, var \in Symbols,
          input \in VariableInputs, hist \in Histories,
          max_results \in MaxResultsValues :
        \E symbol_table \in SymbolTables(n) :
            /\ callArgs' = [fn |-> "VariableParser.__call__",
                            symbol_table |-> symbol_table, var |-> var,
                            max_recursion |-> n, input |-> input,
                            hist |-> hist, max_results |-> max_results]
            /\ callResult' = ParserCall(VariableParser(var, n), symbol_table,
                                        input, hist, max_results)
    /\ UNCHANGED <<plan, callNo, strToIndex, indexToStr, pc, allTapes,
                   symbolStack, maxChars, stateQueue, chars, steps, yielded,
                   history>>

NextVariable == CallVariableParser

InitVariable == InitProcess({<<>>})

SpecVariable == InitVariable /\ [][NextVariable]_vars

\* how many "a" a result took from the surface tier, or put on it
Taken(result, input) ==
    IF "surf" \in DOMAIN input
    THEN Len(input["surf"]) - Len(result.rest["surf"])
    ELSE IF HasKey(result.output, "surf")
         THEN Len(result.output[1].value) ELSE 0

\* how many nested entries of S the call may still make
EntriesLeft(args) ==
    IF args.hist["S"] >= args.max_recursion THEN 0
    ELSE args.max_recursion - args.hist["S"]

\* how many "a" the input allows to take
Available(input) ==
    IF "surf" \in DOMAIN input THEN Len(input["surf"])
    ELSE MaxParserRecursion + 1

Least(a, b) == IF a <= b THEN a ELSE b

\* C36: VariableParser yields nothing when hist[var] >= max_recursion;
\* otherwise it yields what the parser of the symbol yields for a history
\* in which the count of var is one higher, and the history of the caller
\* is as it was; a left-recursive symbol S := (S + "a") | "a" is evaluated
\* to the end, and every result took at most as many "a" as nested entries
\* of S were left, the longest first.
C36_Recursion ==
    (callArgs # <<>> /\ callArgs.fn = "VariableParser.__call__") =>
        /\ callResult.hist = callArgs.hist
        /\ callArgs.hist[callArgs.var] >= callArgs.max_recursion
                => callResult.results = <<>>
        /\ callArgs.hist[callArgs.var] < callArgs.max_recursion
                => callResult.results
                    = ParserCall(callArgs.symbol_table[callArgs.var],
                                 callArgs.symbol_table, callArgs.input,
                                 [callArgs.hist EXCEPT ![callArgs.var] = @ + 1],
                                 callArgs.max_results).results
        /\ (/\ callArgs.symbol_table = LeftRecursive(callArgs.max_recursion)
            /\ callArgs.var = "S")
                => /\ \A j \in 1 .. Len(callResult.results) :
                        Taken(callResult.results[j], callArgs.input)
                            \in 1 .. EntriesLeft(callArgs)
                   /\ callArgs.max_results <= 0
                        => LET most == Least(EntriesLeft(callArgs),
                                             Available(callArgs.input))
                           IN  /\ Len(callResult.results) = most
                               /\ \A j \in 1 .. most :
                                    Taken(callResult.results[j],
                                          callArgs.input) = most + 1 - j

\* the left-recursive S with the default max_recursion on "aaaa", from an
\* empty history: three results, which took "aaa", "aa" and "a"
C36_Witness ==
    /\ callArgs # <<>>
    /\ callArgs.fn = "VariableParser.__call__"
    /\ callArgs.symbol_table = LeftRecursive(DefaultParserMaxRecursion)
    /\ callArgs.var = "S"
    /\ callArgs.max_recursion = DefaultParserMaxRecursion
    /\ callArgs.hist = Counter(<<>>)
    /\ callArgs.input = [t \in {"surf"} |-> Repeat(4)]
    /\ callArgs.max_results = -1
    /\ callResult.hist = Counter(<<>>)
    /\ Len(callResult.results) = 3
    /\ callResult.results[1].rest = [t \in {"surf"} |-> Repeat(1)]
    /\ callResult.results[3].rest = [t \in {"surf"} |-> Repeat(3)]

---------------------------------------------------------------------------
(* The length of the records, pass by pass *)

RECURSIVE LengthOver(_, _)
\* the characters of record on the tapes of names
LengthOver(record, names) ==
    IF names = {} THEN 0
    ELSE LET n == CHOOSE n \in names : TRUE
         IN  Len(record[n]) + LengthOver(record, names \ {n})

\* the characters of a record on all its tapes
TotalLength(record) == LengthOver(record, DOMAIN record)

\* a pass of the loop yields only records of chars characters
YieldsLength ==
    [][(pc = "loop" /\ steps' = steps + 1) =>
        /\ chars = steps
        /\ chars < maxChars
        /\ \A k \in Len(yielded) + 1 .. Len(yielded') :
                TotalLength(yielded'[k]) = chars]_vars

\* the records of an invocation that has ended
InOrderOfLength(h) ==
    /\ \A k \in 1 .. Len(h.records) :
            TotalLength(h.records[k]) < h.maxChars
    /\ \A j, k \in 1 .. Len(h.records) :
            j <= k => TotalLength(h.records[j]) <= TotalLength(h.records[k])
    /\ (h.grammar.type = "Literal" /\ Len(h.grammar.text) >= h.maxChars)
            => h.records = <<>>

\* C37: every record that pass d of the loop of generate yields (d counted
\* from 0) has d characters in total on its tapes; so the records of an
\* invocation are in non-decreasing order of total length, each is shorter
\* than maxChars, and a literal of maxChars or more characters yields
\* nothing.
C37_LengthByPass ==
    /\ YieldsLength
    /\ [](\A i \in 1 .. Len(history) : InOrderOfLength(history[i]))

\* the third pass (d = 2) of an invocation with maxChars = 3 has yielded a
\* record of two characters, after a shorter record of an earlier pass
C37_Witness ==
    /\ pc = "loop"
    /\ maxChars = 3
    /\ steps = 3
    /\ Len(yielded) >= 2
    /\ TotalLength(yielded[Len(yielded)]) = 2
    /\ TotalLength(yielded[1]) < 2

---------------------------------------------------------------------------
(* The records of a grammar on one tape *)

\* the tapes that the Literal and AnyChar states of a grammar name
NamedTapes(g) ==
    {s.tapeName : s \in {x \in SubStates(g) : IsText(x)}}

\* a grammar of Lit, Any, Seq and Uni whose states name one and the same tape
OnOneTape(g) ==
    /\ \A s \in SubStates(g) :
            s.type \in {"Literal", "AnyChar", "Concat", "Union"}
    /\ Cardinality(NamedTapes(g)) = 1

NoneTwice(records) ==
    \A j, k \in 1 .. Len(records) : records[j] = records[k] => j = k

\* C38: generate on a grammar of Lit, Any, Seq and Uni whose states all name
\* the same tape never yields the same record twice, also when the grammar
\* is ambiguous.
C38_NoRecordTwice ==
    /\ (pc = "loop" /\ OnOneTape(Running.grammar)) => NoneTwice(yielded)
    /\ \A i \in 1 .. Len(history) :
            OnOneTape(history[i].grammar) => NoneTwice(history[i].records)

\* generate on the union of a literal with itself has ended and has yielded
\* the text of the literal once
C38_Witness ==
    /\ Len(history) = 1
    /\ history[1].grammar.type = "Union"
    /\ history[1].grammar.child1 = history[1].grammar.child2
    /\ history[1].grammar.child1.type = "Literal"
    /\ Len(history[1].grammar.child1.text) >= 1
    /\ history[1].status = "done"
    /\ history[1].records
        = <<[t \in {history[1].grammar.child1.tapeName} |->
                history[1].grammar.child1.text]>>

---------------------------------------------------------------------------
(* The tokens of the transitions of dQuery *)

\* the targets of a query, the empty token among them
TargetsWithNone == QueryTargets \cup {{}}

\* C39: dQuery yields no transition with an empty token on a tape with
\* numTapes != 0: a transition of ndQuery whose token is empty is dropped,
\* and what is left of a token after an intersection is taken from it is
\* kept only if it is not empty.
C39_NoEmptyToken ==
    \A s \in Queryable : \A q \in QueryTapes : \A target \in TargetsWithNone :
        LET d == dQuery(s, q, target, symbolStack)
        IN  d.err = NoError =>
                \A k \in 1 .. Len(d.trans) :
                    NumTapes(d.trans[k].tape) # 0
                        => ~isEmpty(d.trans[k].bits)

\* the loop holds a literal whose first character is not in the target of
\* a query on its tape: ndQuery yields a transition with an empty token and
\* dQuery yields nothing; and it holds a union whose children match with the
\* same token: ndQuery yields two transitions and dQuery one
C39_Witness ==
    /\ pc = "loop"
    /\ \E s \in Queried : \E q \in QueryTapes : \E target \in QueryTargets :
        LET nd == ndQuery(s, q, target, symbolStack)
            d == dQuery(s, q, target, symbolStack)
        IN  /\ s.type = "Literal"
            /\ Len(nd.trans) = 1
            /\ nd.trans[1].matched
            /\ NumTapes(nd.trans[1].tape) # 0
            /\ isEmpty(nd.trans[1].bits)
            /\ d.err = NoError
            /\ d.trans = <<>>
    /\ \E s \in Queried :
        LET nd == ndQuery(s, TapeCollection, ANY_CHAR, symbolStack)
            d == dQuery(s, TapeCollection, ANY_CHAR, symbolStack)
        IN  /\ s.type = "Union"
            /\ Len(nd.trans) = 2
            /\ nd.trans[1].bits = nd.trans[2].bits
            /\ SameTape(nd.trans[1], nd.trans[2])
            /\ NumTapes(nd.trans[1].tape) # 0
            /\ Len(d.trans) = 1

---------------------------------------------------------------------------
(* AlternationParser and max_results *)

\* beginnings of test_alternate, with one and two characters
Beginnings ==
    AlternationParser(<<LiteralParser("surf", <<"a", "b">>),
                        LiteralParser("surf", <<"a">>)>>)

AlternationSeqs ==
    {<<a>> : a \in LiteralParsers}
        \cup {<<a, b>> : a \in LiteralParsers \cup {Beginnings},
                         b \in LiteralParsers \cup {Beginnings}}
        \cup {<<a, b, c>> : a \in LiteralParsers, b \in LiteralParsers,
                            c \in LiteralParsers}

\* list(AlternationParser(children)(input, Counter(), max_results)), in a
\* process that has made no call yet
CallAlternationParser ==
    /\ pc = "idle"
    /\ callArgs = <<>>
    /\ \E children \in AlternationSeqs, input \in ParserInputs,
          max_results \in -1 .. MaxResultsBound :
        /\ callArgs' = [fn |-> "AlternationParser.__call__",
                        children |-> children, input |-> input,
                        max_results |-> max_results]
        /\ callResult' =
            ParserCall(AlternationParser(children), NoSymbols, input,
                       Counter(<<>>), max_results).results
    /\ UNCHANGED <<plan, callNo, strToIndex, indexToStr, pc, allTapes,
                   symbolStack, maxChars, stateQueue, chars, steps, yielded,
                   history>>

NextAlternation == CallAlternationParser

InitAlternation == InitProcess({<<>>})

SpecAlternation == InitAlternation /\ [][NextAlternation]_vars

RECURSIVE OfChildren(_, _, _, _)
\* what the children yield for input and max_results, from the k-th on, in
\* child order
OfChildren(children, k, input, max_results) ==
    IF k > Len(children) THEN <<>>
    ELSE ParserCall(children[k], NoSymbols, input, Counter(<<>>),
                    max_results).results
            \o OfChildren(children, k + 1, input, max_results)

AlternationCalled ==
    callArgs # <<>> /\ callArgs.fn = "AlternationParser.__call__"

\* what the children of the call yield
Produced ==
    OfChildren(callArgs.children, 1, callArgs.input, callArgs.max_results)

\* with max_results <= 0, or with fewer results of the children than
\* max_results, the call yields every result of every child in child order
YieldsAll ==
    (/\ AlternationCalled
     /\ callArgs.max_results <= 0 \/ Len(Produced) < callArgs.max_results)
        => callResult = Produced

\* with max_results = n > 0 and n or more results of the children, the call
\* yields the first n of them
YieldsFirst ==
    (/\ AlternationCalled
     /\ callArgs.max_results > 0
     /\ Len(Produced) >= callArgs.max_results)
        => callResult = SubSeq(Produced, 1, callArgs.max_results)

\* C40: with max_results = n > 0 an AlternationParser yields the first n
\* results of its children in child order when they produce at least n, and
\* all of them otherwise; with max_results <= 0 it yields every result of
\* every child in child order.
C40_Alternation == YieldsAll /\ YieldsFirst

\* with max_results = n > 0 and n or more results of the children, the call
\* yields nothing
YieldsNothing ==
    (/\ AlternationCalled
     /\ callArgs.max_results > 0
     /\ Len(Produced) >= callArgs.max_results)
        => callResult = <<>>

=============================================================================
